---- MODULE Spec2Model ----
(***************************************************************************)
(* Wallet ledger of the FX trading backend (src/src/wallet/wallet.service.ts).*)
(*                                                                         *)
(* The three ledger operations fundWallet, transferFunds and executeTrade  *)
(* each run inside one database transaction opened on a QueryRunner.  The  *)
(* model keeps the committed tables (wallet_balances, transactions), the   *)
(* row locks taken by SELECT ... FOR UPDATE (lock: pessimistic_write), and *)
(* for every request handler its position, its local variables and the    *)
(* uncommitted writes of its transaction.  Each wait for a wallet row lock  *)
(* is a step of its own; the statements between the last wallet lock and   *)
(* the commit touch only rows the wallet lock already guards and are one   *)
(* step; commit and rollback are steps of their own.                       *)
(*                                                                         *)
(* Amounts are integers counted in units the decimal(20,8) columns store   *)
(* without rounding; rates are integers so that amount * rate is exact.    *)
(***************************************************************************)
EXTENDS Integers, Sequences, FiniteSets, TLC

\* ------------------------------------------------------------------ bounds
NumProcs == 2          \* concurrent request handlers
MaxOps == 2            \* operations committed or in progress

Procs == 1..NumProcs

\* ------------------------------------------------------- data of the model
UserIds == {"u1", "u2", "u3"}
\* users whose row exists with isEmailVerified = true
Verified == {"u1", "u2"}
\* users that own a row of the wallets table (wallet id = owner id here)
WalletOwners == {"u1", "u2"}
NoWallet == "none"

\* enum Currency (two of its four members are enough for every pair case)
Currency == {"USD", "EUR"}

\* amounts a caller may pass; 0 stands for every amount <= 0
Amounts == {0, 1}

\* how the live fetch of FxService.getRates can end without a rate table:
\* the provider answered with an error status (error.response, its status
\* possibly unset), no answer arrived (error.request), another error was
\* thrown (its message naming maxAttempts or not, a status property set on it
\* or not), or the body of a 200 answer has no rates object (line 63)
FetchFailures ==
    {[kind |-> "response", status |-> "INTERNAL_SERVER_ERROR",
      message |-> "other"],
     [kind |-> "response", status |-> "NONE", message |-> "other"],
     [kind |-> "request", status |-> "NONE", message |-> "other"],
     [kind |-> "error", status |-> "NONE", message |-> "other"],
     [kind |-> "error", status |-> "NONE", message |-> "maxAttempts"],
     [kind |-> "error", status |-> "I_AM_A_TEAPOT", message |-> "other"],
     [kind |-> "error", status |-> "I_AM_A_TEAPOT",
      message |-> "maxAttempts"],
     [kind |-> "invalidData", status |-> "NONE", message |-> "other"]}

\* catch block of FxService.getRates, lines 69-89: the status it throws.
\* error.response: its status or 503 (72-76); error.request: 503 (77-79);
\* an Error whose message includes 'maxAttempts': 503 (80-83); anything
\* else: error.status or 500 (85-88)
GetRatesError(f) ==
    IF f.kind = "response"
    THEN IF f.status # "NONE" THEN f.status ELSE "SERVICE_UNAVAILABLE"
    ELSE IF f.kind = "request" THEN "SERVICE_UNAVAILABLE"
    ELSE IF f.message = "maxAttempts" THEN "SERVICE_UNAVAILABLE"
    ELSE IF f.status # "NONE" THEN f.status
    ELSE "INTERNAL_SERVER_ERROR"

\* enum TransactionType / TransactionStatus
TransactionType == {"FUNDING", "CONVERSION", "TRADE", "TRANSFER"}
TransactionStatus == {"PENDING", "COMPLETED", "FAILED", "CANCELLED"}

\* ------------------------------------------------------------- requests
\* the reference of a funding (FundWalletDto.reference); a client that
\* repeats a funding sends the same reference and the same idempotencyKey,
\* and the controller passes only the reference on (controller lines 45-50)
References == {"ref1"}
\* transfers and trades write no reference (the column stays null)
NoReference == "none"

FundRequests ==
    {[type |-> "FUNDING", userId |-> u, toUserId |-> u, fromCurrency |-> c,
      toCurrency |-> c, amount |-> a, reference |-> k] :
        u \in UserIds, c \in Currency, a \in Amounts, k \in References}
TransferRequests ==
    {[type |-> "TRANSFER", userId |-> u, toUserId |-> v, fromCurrency |-> c,
      toCurrency |-> c, amount |-> a, reference |-> NoReference] :
        u \in UserIds, v \in UserIds, c \in Currency, a \in Amounts}
TradeRequests ==
    {[type |-> "TRADE", userId |-> u, toUserId |-> u, fromCurrency |-> c,
      toCurrency |-> d, amount |-> a, reference |-> NoReference] :
        u \in UserIds, c \in Currency, d \in Currency, a \in Amounts}
Requests == FundRequests \cup TransferRequests \cup TradeRequests
\* requests that pass the checks made before the transaction starts
PassesChecks(r) ==
    /\ r.userId \in Verified
    /\ r.amount > 0
    /\ r.type = "TRANSFER" => r.userId # r.toUserId
    /\ r.type = "TRADE" => r.fromCurrency # r.toCurrency
LedgerRequests == {r \in Requests : PassesChecks(r)}
\* one currency and one counterparty of the requests that fail a check
RejectedSamples ==
    {r \in Requests \ LedgerRequests :
        r.fromCurrency = "USD" /\ r.toUserId \in {"u1", "u3"}}
\* the requests callers issue in a behaviour: those that pass the checks and
\* the rejected samples; trades sell USD (the rate lookup of one base
\* currency has every case: a rate, no rate, a zero or negative rate)
Pool ==
    {r \in LedgerRequests \cup RejectedSamples :
        r.type = "TRADE" => r.fromCurrency = "USD"}
\* getWalletBalances(userId) ensures a balance in Currency.NGN (line 74)
DefaultCurrency == "NGN"
BalanceRequests ==
    {[type |-> "BALANCES", userId |-> u, toUserId |-> u,
      fromCurrency |-> DefaultCurrency, toCurrency |-> DefaultCurrency,
      amount |-> 0, reference |-> NoReference] : u \in UserIds}
\* getTransactions(userId), lines 298-304: eligibility, then a read of the
\* caller's ledger entries
TransactionRequests ==
    {[type |-> "TRANSACTIONS", userId |-> u, toUserId |-> u,
      fromCurrency |-> DefaultCurrency, toCurrency |-> DefaultCurrency,
      amount |-> 0, reference |-> NoReference] : u \in UserIds}

\* ------------------------------------------------------------ users table
\* verification tokens a caller may present: the one mailed to u3 at
\* registration, the one mailed to u3 when the mail is resent, and one no
\* user has
Tokens == {"t3", "t4", "unknown"}
NoToken == "null"

\* the users table at the start: u1 and u2 have verified their e-mail, u3 has
\* registered (register, auth.service.spec.ts lines 630-670) and not
\* verified.  verificationTokenExpires is a nullable column that register and
\* resendVerificationEmail leave unset: the set of its dates is empty
InitialUsers ==
    [u \in UserIds |->
        IF u \in Verified
        THEN [isEmailVerified |-> TRUE, verificationToken |-> NoToken,
              verificationTokenExpires |-> {}]
        ELSE [isEmailVerified |-> FALSE, verificationToken |-> "t3",
              verificationTokenExpires |-> {}]]

\* the users table of the test of lines 322-328: the row the repository
\* returns for the token carries a verificationTokenExpires date, hour 0
ExpiredUsers ==
    [InitialUsers EXCEPT !["u3"].verificationTokenExpires = {0}]

\* a verifyEmail call: position, the token given, the user found by it, did
\* the call start a transaction, and the error it throws
NoVerify ==
    [pc |-> "idle", token |-> NoToken, userId |-> "none", started |-> FALSE,
     err |-> "none"]

\* ----------------------------------------------------------- rate limiter
\* RateLimitOptions of the route: points per window, length of the window
RateLimitPoints == 2
RateLimitDuration == 2
\* how long the clock of the rate limiter runs
MaxClock == 3
\* requests a behaviour admits or has in progress
MaxServed == 4
\* `${request.ip}-${request.route.path}`
RateLimitKeys == {"ip1-/wallet/fund"}
\* cacheManager.get(key) of a key that is not set
NoRecord == [points |-> -1, resetTime |-> -1]
\* an entry of the cache manager: the value and the second at which its
\* ttl ends
NoEntry == [value |-> NoRecord, expires |-> -1]
\* the ttl argument of cacheManager.set is a number of seconds for one major
\* version of cache-manager and a number of milliseconds for the next; the
\* guard passes both `duration * 1000` and a number of seconds
TtlUnits == {"milliseconds", "seconds"}
\* an entry set with ttl 0 is kept until it is overwritten
Forever == 1000000
\* a canActivate call: position, key, now (line 31) and the record it read
NoGuard ==
    [pc |-> "idle", key |-> "none", now |-> 0, record |-> NoRecord,
     result |-> "none"]

NoRequest ==
    [type |-> "NONE", userId |-> "none", toUserId |-> "none",
     fromCurrency |-> "none", toCurrency |-> "none", amount |-> 0,
     reference |-> NoReference]

\* RETRY_CONFIG
MaxAttempts == 3
InitialDelay == 1000
MaxDelay == 5000
BackoffFactor == 2

\* a rates object of the provider: the set of its <<currency, rate>>
\* properties; NoTable is the undefined of a cache miss
\* the provider's sound answer: a positive rate for every currency
FullTable == Currency \X {2}
\* tables a provider may send: one without rates, the sound one, and one
\* with a zero or a negative rate (getRates checks only that rates is an
\* object)
RateTables ==
    {{}, FullTable, {<<"EUR", 0>>}, {<<"EUR", 0 - 1>>}}
NoTable == {<<"undefined", 0>>}

\* what one subscription to httpService.get(...) ends with: a response whose
\* data holds a rates object, or one of FetchFailures
FetchOutcomes ==
    {[ok |-> TRUE, data |-> t, failure |-> "none"] : t \in RateTables}
    \cup {[ok |-> FALSE, data |-> NoTable, failure |-> f] : f \in FetchFailures}

\* a getRates call: position, argument, the locals of retry(), what it
\* returned or threw, and what it did (fetches made, delays waited, cache
\* writes made); for a convertCurrency call also the target currency, the
\* amount, and the quote once one is returned (quoted)
NoCall ==
    [pc |-> "idle", base |-> "none", attempt |-> 0, delay |-> 0,
     to |-> "none", amount |-> 0, quoted |-> FALSE, rate |-> 0,
     convertedAmount |-> 0,
     hit |-> FALSE, result |-> NoTable, status |-> "NONE", thrown |-> "none",
     fetches |-> 0, waited |-> <<>>, writes |-> 0]

\* ------------------------------------------------- fallback rate table
\* a rate, a JavaScript number (an IEEE-754 double): the double nearest to
\* the fraction n / d (lowest terms, d > 0), moved by ulp units in the last
\* place; d = 0 stands for the non-finite values (n > 0 Infinity, n < 0
\* -Infinity, n = 0 NaN)
Rat(n, d) == [n |-> n, d |-> d, ulp |-> 0]

\* 1 / rate in double arithmetic: the double nearest to the reciprocal of
\* the double `rate`.  For a rate that is exactly n / d that is the double
\* nearest to d / n; for a rate that was itself rounded the result can lie
\* one unit beside it, e.g. 1 / (1 / 49) = 49.00000000000001.  offBy lists
\* the rates of this model for which it does (1 / 0.79, 1 / 1.09, 1 / 1.27,
\* 1 / 1.16 and 1 / 0.02040816326530612).
Inverse(rate) ==
    LET offBy == CASE rate = Rat(1, 49) -> 1
                   [] rate = Rat(79, 100) -> 0 - 1
                   [] rate = Rat(109, 100) -> 0 - 1
                   [] rate = Rat(127, 100) -> 0 - 1
                   [] rate = Rat(29, 25) -> 1
                   [] OTHER -> 0
    IN  IF rate.d = 0 THEN (IF rate.n = 0 THEN rate ELSE Rat(0, 1))
        ELSE IF rate.n = 0 THEN Rat(1, 0)
        ELSE IF rate.n < 0
             THEN [n |-> 0 - rate.d, d |-> 0 - rate.n, ulp |-> offBy]
        ELSE [n |-> rate.d, d |-> rate.n, ulp |-> offBy]

\* the currencies of the Currency enum that BASE_FALLBACK_RATES lists
FallbackCurrency == {"NGN", "USD", "EUR", "GBP"}
FallbackPairs ==
    {pr \in FallbackCurrency \X FallbackCurrency : pr[1] # pr[2]}

\* BASE_FALLBACK_RATES, fallback-rates.config.ts lines 15-36
BASE_FALLBACK_RATES ==
    [pr \in FallbackPairs |->
        CASE pr = <<"NGN", "USD">> -> Rat(21, 10000)
          [] pr = <<"NGN", "EUR">> -> Rat(19, 10000)
          [] pr = <<"NGN", "GBP">> -> Rat(1, 625)
          [] pr = <<"USD", "NGN">> -> Rat(47619, 100)
          [] pr = <<"USD", "EUR">> -> Rat(23, 25)
          [] pr = <<"USD", "GBP">> -> Rat(79, 100)
          [] pr = <<"EUR", "NGN">> -> Rat(2588, 5)
          [] pr = <<"EUR", "USD">> -> Rat(109, 100)
          [] pr = <<"EUR", "GBP">> -> Rat(43, 50)
          [] pr = <<"GBP", "NGN">> -> Rat(60241, 100)
          [] pr = <<"GBP", "USD">> -> Rat(127, 100)
          [] pr = <<"GBP", "EUR">> -> Rat(29, 25)]

\* MAX_FALLBACK_RATE_AGE, in hours
MAX_FALLBACK_RATE_AGE == 1

\* the upper limit of isValidRate
RateUpperLimit == 1000000

\* hours the clock of a behaviour runs
MaxTime == 2

\* initializeFallbackRates(): every base rate, stamped with the time of
\* construction
InitializeFallbackRates(time) ==
    [pr \in FallbackPairs |->
        [rate |-> BASE_FALLBACK_RATES[pr], lastUpdated |-> time]]

\* a staleness test that already fires at exactly MAX_FALLBACK_RATE_AGE hours
AtLeastMaxAge(lastUpdated, time) ==
    time - lastUpdated >= MAX_FALLBACK_RATE_AGE

\* areRatesStale(lastUpdated)
AreRatesStale(lastUpdated, time) ==
    time - lastUpdated > MAX_FALLBACK_RATE_AGE

\* isValidRate(rate): a number, not NaN, finite, > 0 and < 1000000
IsValidRate(rate) ==
    /\ rate.d > 0
    /\ rate.n > 0
    /\ rate.n \div rate.d < RateUpperLimit

\* an updateRate that rejects a rate other than the current one of the pair
UpdateRateKeepsCurrent(table, fromCurrency, toCurrency, newRate, time) ==
    IF ~IsValidRate(newRate) THEN table
    ELSE IF /\ <<fromCurrency, toCurrency>> \in DOMAIN table
            /\ table[<<fromCurrency, toCurrency>>].rate # newRate
    THEN table
    ELSE LET Put(t, pr, entry) ==
                 [q \in DOMAIN t \cup {pr} |->
                     IF q = pr THEN entry ELSE t[q]]
             direct == Put(table, <<fromCurrency, toCurrency>>,
                           [rate |-> newRate, lastUpdated |-> time])
         IN  Put(direct, <<toCurrency, fromCurrency>>,
                 [rate |-> Inverse(newRate), lastUpdated |-> time])

\* updateRate(fromCurrency, toCurrency, newRate) at time `time`, lines 49-86:
\* the entry of the pair, created if the table has none, then the entry of
\* the reversed pair with 1 / newRate (for fromCurrency = toCurrency the
\* second assignment replaces the first)
UpdateRate(table, fromCurrency, toCurrency, newRate, time) ==
    IF ~IsValidRate(newRate) THEN table
    ELSE LET Put(t, pr, entry) ==
                 [q \in DOMAIN t \cup {pr} |->
                     IF q = pr THEN entry ELSE t[q]]
             direct == Put(table, <<fromCurrency, toCurrency>>,
                           [rate |-> newRate, lastUpdated |-> time])
             inverseRate == Inverse(newRate)
         IN  Put(direct, <<toCurrency, fromCurrency>>,
                 [rate |-> inverseRate, lastUpdated |-> time])

\* a lookup that ignores the table and answers from BASE_FALLBACK_RATES
GetBaseRate(table, fromCurrency, toCurrency) ==
    IF <<fromCurrency, toCurrency>> \in DOMAIN BASE_FALLBACK_RATES
    THEN BASE_FALLBACK_RATES[<<fromCurrency, toCurrency>>]
    ELSE Rat(1, 1)

\* getRate(fromCurrency, toCurrency), lines 37-44: the stored rate of the
\* pair; without an entry, the base rate of the pair, or 1
GetRate(table, fromCurrency, toCurrency) ==
    IF <<fromCurrency, toCurrency>> \in DOMAIN table
    THEN table[<<fromCurrency, toCurrency>>].rate
    ELSE IF <<fromCurrency, toCurrency>> \in DOMAIN BASE_FALLBACK_RATES
         THEN BASE_FALLBACK_RATES[<<fromCurrency, toCurrency>>]
         ELSE Rat(1, 1)

\* the RateSourceResponse fields the service reads
Response(fromCurrency, toCurrency, rate) ==
    [fromCurrency |-> fromCurrency, toCurrency |-> toCurrency, rate |-> rate]

\* rates a provider may deliver: ordinary ones, a very small one, zero, the
\* upper limit itself and Infinity
SourceRates ==
    {Rat(2, 1), Rat(4, 1), Rat(1, 2097152), Rat(0, 1), Rat(1000000, 1),
     Rat(1, 0)}

\* pairs the providers of a behaviour quote
SourcePairs == {<<"USD", "EUR">>, <<"EUR", "USD">>}

\* pairs updateRate is called with: those, and EUR with itself (the base
\* currency in a Fixer answer, passed on by the loop of fetchLatestRates;
\* the method does not compare its two currencies)
UpdatePairs == SourcePairs \cup {<<"EUR", "EUR">>}

\* the calls of updateRate a behaviour makes: any rate for any of these
\* pairs, and EUR quoted in itself at 1
UpdateCalls ==
    (UpdatePairs \X SourceRates) \cup {<<<<"EUR", "EUR">>, Rat(1, 1)>>}

SourceResponses ==
    {Response(pr[1], pr[2], r) : pr \in SourcePairs, r \in SourceRates}

\* longest list the first rate source returns in a behaviour
MaxRates == 2

\* lists the first rate source can return: any responses, both directions
\* of a pair possibly among them
SourceLists ==
    UNION {[1..k -> SourceResponses] : k \in 0..MaxRates}

\* the rates object of a Fixer answer (base EUR), as its entries in order;
\* JPY is not in the Currency enum, EUR is the base itself, quoted at 1 or
\* at whatever the body holds (nothing in lines 49-78 looks at the value);
\* 49 is a rate whose reciprocal is not a double
FixerData ==
    {<<>>} \cup {<<e>> : e \in ({"USD", "JPY"} \X {Rat(2, 1), Rat(0, 1)})
                              \cup {<<"USD", Rat(49, 1)>>}
                              \cup ({"EUR"} \X {Rat(1, 1), Rat(2, 1),
                                                Rat(4, 1)})}

\* FixerApiSource.getRates, lines 53-78: for every entry with a supported
\* currency the EUR -> currency response and its inverse
RECURSIVE FixerResponses(_)
FixerResponses(entries) ==
    IF entries = <<>> THEN <<>>
    ELSE LET currency == Head(entries)[1]
             rate == Head(entries)[2]
         IN  (IF currency \in FallbackCurrency
              THEN <<Response("EUR", currency, rate),
                     Response(currency, "EUR", Inverse(rate))>>
              ELSE <<>>) \o FixerResponses(Tail(entries))

\* this.rateSources, in order
RateSources == <<"ExchangeRatesApiSource", "FixerApiSource">>

\* what source.getRates() can resolve with
GetRatesLists(source) ==
    IF RateSources[source] = "FixerApiSource"
    THEN {FixerResponses(d) : d \in FixerData}
    ELSE SourceLists

\* an updateRatesIfNeeded call: position, the locals of withRetry (attempt,
\* delay) and of fetchLatestRates (the source of the loop), the calls the
\* current pass has made to the sources, the sources whose list was applied,
\* that list and the number of rates written from it
NoRefresh ==
    [pc |-> "idle", attempt |-> 0, delay |-> 0, source |-> 0,
     calls |-> <<>>, used |-> {}, rates |-> <<>>, written |-> 0]

VARIABLES
    balances,       \* wallet_balances table, committed rows
    transactions,   \* transactions table, committed rows
    walletLock,     \* wallets row lock: owner -> holding handler, 0 if free
    rowLock,        \* wallet_balances row locks: handler -> row indexes
    pc,             \* handler -> position in its operation
    req,            \* handler -> arguments of the running operation
    local,          \* handler -> local variables of the operation
    tx,             \* handler -> uncommitted writes of its transaction
    pool,           \* requests that callers issue in this behaviour
    faults,         \* may database and FX calls fail in this behaviour
    cache,          \* cache manager: base currency of key rates:<base> -> table
    fx,             \* caller -> its running FxService.getRates call
    fallbackRates,  \* FallbackRatesService.fallbackRates: pair -> entry
    refresh,        \* the running updateRatesIfNeeded call
    now,            \* wall clock, in hours
    users,          \* users table, committed rows: id -> row
    auth,           \* handler -> its running AuthService.verifyEmail call
    limits,         \* cache manager: rate-limit key -> record
    guard,          \* handler -> its running RateLimitGuard.canActivate call
    clock,          \* Date.now() of the rate limiter, in seconds
    served,         \* the requests canActivate has admitted, in order
    ttlUnit         \* the unit in which the cache manager of the build
                    \* reads the ttl argument of set

\* the state of FallbackRatesService and the clock it reads
fbVars == <<fallbackRates, refresh, now>>

\* the users table with the verifyEmail calls, and the rate limiter
authVars == <<users, auth>>
guardVars == <<limits, guard, clock, served, ttlUnit>>

vars == <<balances, transactions, walletLock, rowLock, pc, req, local, tx,
          pool, faults, cache, fx, fallbackRates, refresh, now, users, auth,
          limits, guard, clock, served, ttlUnit>>

\* ---------------------------------------------------- entities and helpers
\* an in-memory WalletBalance entity; src says where it came from
NoBalance ==
    [src |-> "none", idx |-> 0, walletId |-> "none", currency |-> "none",
     balance |-> 0, lockedBalance |-> 0, availableBalance |-> 0]

RowOf(e) ==
    [walletId |-> e.walletId, currency |-> e.currency, balance |-> e.balance,
     lockedBalance |-> e.lockedBalance,
     availableBalance |-> e.availableBalance]

EntityOf(src, idx, row) ==
    [src |-> src, idx |-> idx, walletId |-> row.walletId,
     currency |-> row.currency, balance |-> row.balance,
     lockedBalance |-> row.lockedBalance,
     availableBalance |-> row.availableBalance]

NoTx == [inserted |-> <<>>, updated |-> {}, ledger |-> <<>>]

NoLocal ==
    [wallet |-> NoWallet, fromWallet |-> NoWallet, toWallet |-> NoWallet,
     rate |-> 0, convertedAmount |-> 0, balance |-> NoBalance,
     fromBalance |-> NoBalance, toBalance |-> NoBalance, err |-> "NONE"]

\* manager.create(WalletBalance, {walletId, currency, 0, 0, 0})
NewBalanceRow(walletId, currency) ==
    [walletId |-> walletId, currency |-> currency, balance |-> 0,
     lockedBalance |-> 0, availableBalance |-> 0]

\* the value of committed row i as transaction t sees it
SeenRow(bals, t, i) ==
    IF \E u \in t.updated : u.idx = i
    THEN (CHOOSE u \in t.updated : u.idx = i).row
    ELSE bals[i]

\* rows of (walletId, currency) that findOne can return inside transaction t
CommittedMatches(bals, walletId, currency) ==
    {i \in 1..Len(bals) :
        bals[i].walletId = walletId /\ bals[i].currency = currency}
InsertedMatches(t, walletId, currency) ==
    {i \in 1..Len(t.inserted) :
        t.inserted[i].walletId = walletId /\ t.inserted[i].currency = currency}

\* manager.save(WalletBalance, e): INSERT for a new entity, UPDATE by id else
SaveBalance(t, e) ==
    IF e.src = "db"
    THEN [t EXCEPT !.updated =
            {u \in @ : u.idx # e.idx} \cup {[idx |-> e.idx, row |-> RowOf(e)]}]
    ELSE [t EXCEPT !.inserted[e.idx] = RowOf(e)]

\* commitTransaction: the transaction's writes become the committed rows
CommitBalances(bals, t) ==
    [i \in 1..Len(bals) |-> SeenRow(bals, t, i)] \o t.inserted

\* Credit with the assignment to balance.balance left out
CreditAvailableOnly(e, amount) ==
    [e EXCEPT !.availableBalance = @ + amount]

\* balance.balance += amount; balance.availableBalance += amount
Credit(e, amount) ==
    [e EXCEPT !.balance = @ + amount, !.availableBalance = @ + amount]

\* Debit with the assignment to fromBalance.availableBalance left out
DebitBalanceOnly(e, amount) ==
    [e EXCEPT !.balance = @ - amount]

\* fromBalance.balance -= amount; fromBalance.availableBalance -= amount
Debit(e, amount) ==
    [e EXCEPT !.balance = @ - amount, !.availableBalance = @ - amount]

\* `if (!rate)`: undefined and 0 are falsy, every other number is truthy
RateIsFalsy(reply) == ~reply.has \/ reply.rate = 0

\* the funds check comparing with zero instead of the amount
ChecksOnlySign(e, amount) == e.availableBalance < 0

\* `if (Number(fromBalance.availableBalance) < amount)`
HasInsufficientFunds(e, amount) == e.availableBalance < amount

\* ----------------------------------------------------------- initial state
TypeOK ==
    /\ walletLock \in [WalletOwners -> 0..NumProcs]
    /\ rowLock \in [Procs -> SUBSET (1..Len(balances))]
    /\ pc \in [Procs -> {"idle", "findWallet", "findToWallet", "execute",
                         "convert", "toBalance", "ensureBalance", "commit",
                         "failed",
                         "rejected"}]
    /\ req \in [Procs -> Requests \cup BalanceRequests \cup TransactionRequests
                           \cup {NoRequest}]

Init ==
    /\ balances = <<>>
    /\ transactions = <<>>
    /\ walletLock = [u \in WalletOwners |-> 0]
    /\ rowLock = [p \in Procs |-> {}]
    /\ pc = [p \in Procs |-> "idle"]
    /\ req = [p \in Procs |-> NoRequest]
    /\ local = [p \in Procs |-> NoLocal]
    /\ tx = [p \in Procs |-> NoTx]
    /\ pool = Pool
    /\ faults = TRUE
    /\ cache = [b \in Currency |-> NoTable]
    /\ fx = [p \in Procs |-> NoCall]
    /\ fallbackRates = InitializeFallbackRates(0)
    /\ refresh = NoRefresh
    /\ now = 0
    /\ users = InitialUsers
    /\ auth = [p \in Procs |-> NoVerify]
    /\ limits = [k \in RateLimitKeys |-> NoEntry]
    /\ guard = [p \in Procs |-> NoGuard]
    /\ clock = 0
    /\ served = <<>>
    /\ ttlUnit = "seconds"

\* --------------------------------------------------------- shared fragments
\* committed operations plus the operations in progress
OpsCounted ==
    Len(transactions) + Cardinality({q \in Procs : pc[q] # "idle"})

\* a caller's request reaches handler p (handlers are interchangeable: the
\* lowest idle one takes the call)
Accepts(p) ==
    /\ pc[p] = "idle" /\ OpsCounted < MaxOps
    /\ \A q \in Procs : q < p => pc[q] # "idle"

\* the call throws before a transaction is opened
Reject(p, r, code) ==
    /\ pc' = [pc EXCEPT ![p] = "rejected"]
    /\ req' = [req EXCEPT ![p] = r]
    /\ local' = [local EXCEPT ![p].err = code]
    /\ UNCHANGED <<balances, transactions, walletLock, rowLock, tx, pool,
                   faults, cache, fx, fbVars, authVars, guardVars>>

\* createQueryRunner, connect, startTransaction
StartTransaction(p, r) ==
    /\ pc' = [pc EXCEPT ![p] = "findWallet"]
    /\ req' = [req EXCEPT ![p] = r]
    /\ UNCHANGED <<balances, transactions, walletLock, rowLock, local, tx,
                   pool, faults, cache, fx, fbVars, authVars, guardVars>>

\* the check without the isEmailVerified test: any user row passes
UserIsFound(userId) == userId \in UserIds

\* checkUserVerified: the user row exists and isEmailVerified
UserIsVerified(userId) ==
    userId \in DOMAIN users /\ users[userId].isEmailVerified

\* a statement inside the try block throws: control goes to the catch block
\* with the error and the transaction's writes so far (t); the catch block
\* uses no other local
Throw(p, t, code) ==
    /\ pc' = [pc EXCEPT ![p] = "failed"]
    /\ local' = [local EXCEPT ![p] = [NoLocal EXCEPT !.err = code]]
    /\ req' = [req EXCEPT ![p] = NoRequest]
    /\ tx' = [tx EXCEPT ![p] = t]

\* findOne without the lock option: the read never waits
WalletNeverWaits(p, userId) == TRUE

\* one lock for the whole wallets table instead of one per row
WalletTableFree(p, userId) == \A u \in WalletOwners : walletLock[u] \in {0, p}

\* manager.findOne(Wallet, {where: {userId}, lock: pessimistic_write}):
\* waits while another transaction holds the row, then locks and returns it;
\* returns null (and locks nothing) when the user has no wallet
WalletFree(p, userId) == walletLock[userId] \in {0, p}

WalletFound(userId) == IF userId \in WalletOwners THEN userId ELSE NoWallet

LockWallet(p, userId) ==
    IF userId \in WalletOwners
    THEN /\ WalletFree(p, userId)
         /\ walletLock' = [walletLock EXCEPT ![userId] = p]
    ELSE UNCHANGED walletLock

\* getOrCreateBalance(manager, walletId, currency), lines 27-48.
\* The row findOne returns and locks: a committed row no other transaction
\* holds (the SELECT waits for a held one), else a row this transaction
\* inserted, else none and a zeroed row is created and saved.
RowFree(p, i) == \A q \in Procs \ {p} : i \notin rowLock[q]

Candidates(p, t, walletId, currency) ==
    LET cm == CommittedMatches(balances, walletId, currency)
        im == InsertedMatches(t, walletId, currency)
    IN  IF cm # {}
        THEN {[src |-> "db", idx |-> i] : i \in {j \in cm : RowFree(p, j)}}
        ELSE IF im # {}
        THEN {[src |-> "new", idx |-> i] : i \in im}
        ELSE {[src |-> "create", idx |-> Len(t.inserted) + 1]}

GetOrCreateBalance(t, walletId, currency, c) ==
    IF c.src = "db"
    THEN [tx |-> t,
          entity |-> EntityOf("db", c.idx, SeenRow(balances, t, c.idx))]
    ELSE IF c.src = "new"
    THEN [tx |-> t, entity |-> EntityOf("new", c.idx, t.inserted[c.idx])]
    ELSE [tx |-> [t EXCEPT !.inserted =
                     Append(@, NewBalanceRow(walletId, currency))],
          entity |-> EntityOf("new", c.idx,
                              NewBalanceRow(walletId, currency))]

LockedRows(cs) == {c.idx : c \in {d \in cs : d.src = "db"}}

\* transactionData written with status PENDING
LedgerEntryPending(r, walletId, rate, convertedAmount) ==
    [userId |-> r.userId, walletId |-> walletId, type |-> r.type,
     status |-> "PENDING", amount |-> r.amount,
     fromCurrency |-> r.fromCurrency, toCurrency |-> r.toCurrency,
     rate |-> rate, convertedAmount |-> convertedAmount,
     reference |-> r.reference]

\* transactionData recording the input amount as the converted amount
LedgerEntryUnconverted(r, walletId, rate, convertedAmount) ==
    [userId |-> r.userId, walletId |-> walletId, type |-> r.type,
     status |-> "COMPLETED", amount |-> r.amount,
     fromCurrency |-> r.fromCurrency, toCurrency |-> r.toCurrency,
     rate |-> rate, convertedAmount |-> r.amount,
     reference |-> r.reference]

\* transactionData attributed to the receiving user
LedgerEntryToReceiver(r, walletId, rate, convertedAmount) ==
    [userId |-> r.toUserId, walletId |-> walletId, type |-> r.type,
     status |-> "COMPLETED", amount |-> r.amount,
     fromCurrency |-> r.fromCurrency, toCurrency |-> r.toCurrency,
     rate |-> rate, convertedAmount |-> convertedAmount,
     reference |-> r.reference]

\* transactionData of the three operations
LedgerEntry(r, walletId, rate, convertedAmount) ==
    [userId |-> r.userId, walletId |-> walletId, type |-> r.type,
     status |-> "COMPLETED", amount |-> r.amount,
     fromCurrency |-> r.fromCurrency, toCurrency |-> r.toCurrency,
     rate |-> rate, convertedAmount |-> convertedAmount,
     reference |-> r.reference]

\* manager.save(Transaction, manager.create(Transaction, transactionData))
SaveTransaction(t, entry) == [t EXCEPT !.ledger = Append(@, entry)]

\* which awaited save of the try block rejects, if any
SaveOutcomes == IF faults THEN {"ok", "saveBalance", "saveTransaction"}
                ELSE {"ok"}

\* the saves of lines 120-137 / 192-208 / 267-283 on the mutated entities:
\* t0 holds the writes made before them, saved the balance writes, entry the
\* ledger row
Saves(p, loc, t0, saved, entry) ==
    \E outcome \in SaveOutcomes :
        IF outcome = "ok"
        THEN /\ tx' = [tx EXCEPT ![p] = SaveTransaction(saved, entry)]
             /\ local' = [local EXCEPT ![p] = loc]
             /\ pc' = [pc EXCEPT ![p] = "commit"]
             /\ UNCHANGED req
        ELSE IF outcome = "saveBalance"
        THEN Throw(p, t0, "INTERNAL_SERVER_ERROR")
        ELSE Throw(p, saved, "INTERNAL_SERVER_ERROR")

\* the amount check accepting zero
IsNegative(amount) == amount < 0

\* `if (amount <= 0)` of lines 97, 164 and 234
NotPositive(amount) == amount <= 0

\* ------------------------------------------------------------- fundWallet
\* lines 95-103: eligibility, amount check, transaction start
FundWallet_Begin(p) ==
    /\ Accepts(p)
    /\ \E r \in pool \cap FundRequests :
          IF ~UserIsVerified(r.userId) THEN Reject(p, r, "FORBIDDEN")
          ELSE IF NotPositive(r.amount) THEN Reject(p, r, "INVALID_AMOUNT")
          ELSE StartTransaction(p, r)

\* lines 106-113: lock the owner's wallet row
FundWallet_FindWallet(p) ==
    /\ pc[p] = "findWallet" /\ req[p].type = "FUNDING"
    /\ LockWallet(p, req[p].userId)
    /\ LET wallet == WalletFound(req[p].userId)
       IN  IF wallet = NoWallet
           THEN Throw(p, tx[p], "NOT_FOUND")
           ELSE /\ local' = [local EXCEPT ![p].wallet = wallet]
                /\ pc' = [pc EXCEPT ![p] = "execute"]
                /\ UNCHANGED <<tx, req>>
    /\ UNCHANGED <<balances, transactions, rowLock, pool, faults, cache, fx, fbVars, authVars, guardVars>>

\* lines 115-137: balance lookup, the two assignments, the two saves
FundWallet_Execute(p) ==
    /\ pc[p] = "execute" /\ req[p].type = "FUNDING"
    /\ \E c \in Candidates(p, tx[p], local[p].wallet, req[p].fromCurrency) :
          LET g == GetOrCreateBalance(tx[p], local[p].wallet,
                                      req[p].fromCurrency, c)
              b == Credit(g.entity, req[p].amount)
              loc == [local[p] EXCEPT !.balance = b]
          IN  /\ rowLock' = [rowLock EXCEPT ![p] = @ \cup LockedRows({c})]
              /\ Saves(p, loc, g.tx, SaveBalance(g.tx, b),
                       LedgerEntry(req[p], local[p].wallet, 1, req[p].amount))
    /\ UNCHANGED <<balances, transactions, walletLock, pool, faults, cache, fx, fbVars, authVars, guardVars>>

\* ---------------------------------------------------------- transferFunds
\* lines 159-170: eligibility of the sender, same-user and amount checks
TransferFunds_Begin(p) ==
    /\ Accepts(p)
    /\ \E r \in pool \cap TransferRequests :
          IF ~UserIsVerified(r.userId) THEN Reject(p, r, "FORBIDDEN")
          ELSE IF r.userId = r.toUserId THEN Reject(p, r, "SAME_USER")
          ELSE IF NotPositive(r.amount) THEN Reject(p, r, "INVALID_AMOUNT")
          ELSE StartTransaction(p, r)

\* line 173: the sender's wallet row is locked first
TransferFunds_FindFromWallet(p) ==
    /\ pc[p] = "findWallet" /\ req[p].type = "TRANSFER"
    /\ LockWallet(p, req[p].userId)
    /\ local' = [local EXCEPT ![p].fromWallet = WalletFound(req[p].userId)]
    /\ pc' = [pc EXCEPT ![p] = "findToWallet"]
    /\ UNCHANGED <<balances, transactions, rowLock, req, tx, pool, faults, cache, fx, fbVars, authVars, guardVars>>

\* lines 174-178: then the receiver's wallet row; both must exist
TransferFunds_FindToWallet(p) ==
    /\ pc[p] = "findToWallet" /\ req[p].type = "TRANSFER"
    /\ LockWallet(p, req[p].toUserId)
    /\ LET toWallet == WalletFound(req[p].toUserId)
           loc == [local[p] EXCEPT !.toWallet = toWallet]
       IN  IF local[p].fromWallet = NoWallet \/ toWallet = NoWallet
           THEN Throw(p, tx[p], "NOT_FOUND")
           ELSE /\ local' = [local EXCEPT ![p] = loc]
                /\ pc' = [pc EXCEPT ![p] = "execute"]
                /\ UNCHANGED <<tx, req>>
    /\ UNCHANGED <<balances, transactions, rowLock, pool, faults, cache, fx, fbVars, authVars, guardVars>>

\* line 180: `await this.getOrCreateBalance(manager, fromWallet.id, currency)`:
\* the sender's balance row is locked, or created and saved
TransferFunds_FromBalance(p) ==
    /\ pc[p] = "execute" /\ req[p].type = "TRANSFER"
    /\ \E cf \in Candidates(p, tx[p], local[p].fromWallet,
                            req[p].fromCurrency) :
          LET gf == GetOrCreateBalance(tx[p], local[p].fromWallet,
                                       req[p].fromCurrency, cf)
          IN  /\ rowLock' = [rowLock EXCEPT ![p] = @ \cup LockedRows({cf})]
              /\ tx' = [tx EXCEPT ![p] = gf.tx]
              /\ local' = [local EXCEPT ![p].fromBalance = gf.entity]
              /\ pc' = [pc EXCEPT ![p] = "toBalance"]
    /\ UNCHANGED <<balances, transactions, walletLock, req, pool, faults, cache, fx, fbVars, authVars, guardVars>>

\* lines 181-208: the receiver's balance lookup, the funds check on the
\* sender's balance, the four assignments, the save of both entities and of
\* the ledger row
TransferFunds_Execute(p) ==
    /\ pc[p] = "toBalance" /\ req[p].type = "TRANSFER"
    /\ \E ct \in Candidates(p, tx[p], local[p].toWallet,
                            req[p].toCurrency) :
          LET gt == GetOrCreateBalance(tx[p], local[p].toWallet,
                                       req[p].toCurrency, ct)
              f == Debit(local[p].fromBalance, req[p].amount)
              t == Credit(gt.entity, req[p].amount)
          IN  /\ rowLock' = [rowLock EXCEPT ![p] = @ \cup LockedRows({ct})]
              /\ IF HasInsufficientFunds(local[p].fromBalance, req[p].amount)
                 THEN Throw(p, gt.tx, "INSUFFICIENT_FUNDS")
                 ELSE Saves(p, [local[p] EXCEPT !.fromBalance = f,
                                                !.toBalance = t],
                            gt.tx, SaveBalance(SaveBalance(gt.tx, f), t),
                            LedgerEntry(req[p], local[p].fromWallet, 1,
                                        req[p].amount))
    /\ UNCHANGED <<balances, transactions, walletLock, pool, faults, cache, fx, fbVars, authVars, guardVars>>

\* ---------------------------------------------------- FxService.getRates
\* everything but the cache and the getRates calls
ledgerVars == <<balances, transactions, walletLock, rowLock, pc, req, local,
                tx, pool, faults, fbVars, authVars, guardVars>>

Min(a, b) == IF a <= b THEN a ELSE b

\* a cache manager that never has the key
CacheGetNothing(base) == NoTable

\* cacheManager.get(`rates:${baseCurrency}`), line 44
CacheGet(base) == cache[base]

\* a cache manager that drops what it is given
CacheSetNothing(base, rates) == cache

\* cacheManager.set(`rates:${baseCurrency}`, rates), line 66
CacheSet(base, rates) == [cache EXCEPT ![base] = rates]

\* a delay that stays what it was
SameDelay(delay) == delay

\* retry.util.ts line 24: delay = Math.min(delay * backoffFactor, maxDelay)
NextDelay(delay) == Min(delay * BackoffFactor, MaxDelay)

\* lines 42-50 for the call `call`: the cache lookup; a hit returns the
\* cached value, a miss enters retry() with attempt = 1 and delay =
\* initialDelay
BeginCall(call) ==
    LET cachedRates == CacheGet(call.base)
    IN  IF cachedRates # NoTable
        THEN [call EXCEPT !.pc = "returned", !.hit = TRUE,
                          !.result = cachedRates]
        ELSE [call EXCEPT !.pc = "fetch", !.attempt = 1,
                          !.delay = InitialDelay]

\* a caller of getRates(baseCurrency) other than the trade and the quote
GetRates_Begin(p) ==
    /\ fx[p].pc = "idle"
    /\ \E base \in Currency :
          fx' = [fx EXCEPT ![p] = BeginCall([NoCall EXCEPT !.base = base])]
    /\ UNCHANGED <<ledgerVars, cache>>

\* what a subscription can end with in this behaviour: anything, or, where
\* the provider is up and sound, its full table
OutcomesNow ==
    {o \in FetchOutcomes : faults \/ (o.ok /\ o.data = FullTable)}

\* the call after one pass of the loop of retry() (retry.util.ts 15-22) that
\* ended with outcome o, and what follows it in getRates: a response goes to
\* the data check of lines 62-65, then to cacheManager.set and the return
\* (66-68); a failure of the last attempt is rethrown to the catch block
\* (69-89); any other failure goes to the delay
AfterAttempt(call, o) ==
    LET c == [call EXCEPT !.fetches = @ + 1]
    IN  IF o.ok
        THEN [c EXCEPT !.pc = "returned", !.result = o.data,
                       !.writes = @ + 1]
        ELSE IF o.failure.kind = "invalidData" \/ c.attempt = MaxAttempts
        THEN [c EXCEPT !.pc = "thrown", !.thrown = o.failure.kind,
                       !.status = GetRatesError(o.failure)]
        ELSE [c EXCEPT !.pc = "sleep"]

\* the cache after that pass: line 66 runs for a response with a rates object
CacheAfter(call, o) ==
    IF o.ok THEN CacheSet(call.base, o.data) ELSE cache

Retry_Attempt(p) ==
    /\ fx[p].pc = "fetch"
    /\ \E o \in OutcomesNow :
          /\ fx' = [fx EXCEPT ![p] = AfterAttempt(fx[p], o)]
          /\ cache' = CacheAfter(fx[p], o)
    /\ UNCHANGED ledgerVars

\* retry.util.ts 23-24 and the loop increment: wait for delay, then
\* delay = min(delay * backoffFactor, maxDelay), attempt++
Retry_Sleep(p) ==
    /\ fx[p].pc = "sleep"
    /\ fx' = [fx EXCEPT ![p] =
                 [@ EXCEPT !.pc = "fetch",
                           !.waited = Append(@, fx[p].delay),
                           !.delay = NextDelay(fx[p].delay),
                           !.attempt = @ + 1]]
    /\ UNCHANGED <<ledgerVars, cache>>

\* ratesData.rates[toCurrency]: the property's value, or undefined
RatesLookup(ratesData, toCurrency) ==
    IF \E e \in ratesData : e[1] = toCurrency
    THEN [thrown |-> "NONE", has |-> TRUE,
          rate |-> (CHOOSE e \in ratesData : e[1] = toCurrency)[2]]
    ELSE [thrown |-> "NONE", has |-> FALSE, rate |-> 0]


\* ----------------------------------------------------------- executeTrade
\* lines 229-240: eligibility, same-currency and amount checks
ExecuteTrade_Begin(p) ==
    /\ Accepts(p)
    /\ \E r \in pool \cap TradeRequests :
          IF ~UserIsVerified(r.userId) THEN Reject(p, r, "FORBIDDEN")
          ELSE IF r.fromCurrency = r.toCurrency
               THEN Reject(p, r, "SAME_CURRENCY")
          ELSE IF NotPositive(r.amount) THEN Reject(p, r, "INVALID_AMOUNT")
          ELSE StartTransaction(p, r)

\* lines 243-246: lock the owner's wallet row
ExecuteTrade_FindWallet(p) ==
    /\ pc[p] = "findWallet" /\ req[p].type = "TRADE"
    /\ LockWallet(p, req[p].userId)
    /\ LET wallet == WalletFound(req[p].userId)
       IN  IF wallet = NoWallet
           THEN Throw(p, tx[p], "NOT_FOUND")
           ELSE /\ local' = [local EXCEPT ![p].wallet = wallet]
                /\ pc' = [pc EXCEPT ![p] = "execute"]
                /\ UNCHANGED <<tx, req>>
    /\ UNCHANGED <<balances, transactions, rowLock, pool, faults, cache, fx, fbVars, authVars, guardVars>>

\* lines 248-252, once getRates has returned or thrown (call): the exception
\* is passed on; otherwise the rate lookup and `if (!rate)`
ResolveRate(p, call) ==
    LET reply == RatesLookup(call.result, req[p].toCurrency)
    IN  IF call.pc = "thrown" THEN Throw(p, tx[p], call.status)
        ELSE IF RateIsFalsy(reply)
        THEN Throw(p, tx[p], "SERVICE_UNAVAILABLE")
        ELSE /\ pc' = [pc EXCEPT ![p] = "convert"]
             /\ local' = [local EXCEPT ![p].rate = reply.rate]
             /\ UNCHANGED <<req, tx>>

\* line 248: `await this.fxService.getRates(fromCurrency)`, made while the
\* wallet row is locked; the call runs as any getRates call does: the cache
\* lookup, which on a hit returns to line 249 at once
ExecuteTrade_GetRates(p) ==
    /\ pc[p] = "execute" /\ req[p].type = "TRADE"
    /\ fx[p].pc = "idle"
    /\ LET call == BeginCall([NoCall EXCEPT !.base = req[p].fromCurrency])
       IN  IF call.pc = "returned"
           THEN ResolveRate(p, call) /\ UNCHANGED fx
           ELSE fx' = [fx EXCEPT ![p] = call] /\ UNCHANGED <<pc, req, local, tx>>
    /\ UNCHANGED <<balances, transactions, walletLock, rowLock, pool, faults, cache, fbVars, authVars, guardVars>>

\* the live fetch of that call: one pass of retry(); a pass that ends the
\* call (response, invalid body, last failure) writes the cache as getRates
\* does and returns to line 249 or to the catch block of line 285
ExecuteTrade_Fetch(p) ==
    /\ pc[p] = "execute" /\ req[p].type = "TRADE"
    /\ fx[p].pc = "fetch"
    /\ \E o \in OutcomesNow :
          LET call == AfterAttempt(fx[p], o)
          IN  /\ cache' = CacheAfter(fx[p], o)
              /\ IF call.pc = "sleep"
                 THEN /\ fx' = [fx EXCEPT ![p] = call]
                      /\ UNCHANGED <<pc, req, local, tx>>
                 ELSE /\ fx' = [fx EXCEPT ![p] = NoCall]
                      /\ ResolveRate(p, call)
    /\ UNCHANGED <<balances, transactions, walletLock, rowLock, pool, faults, fbVars, authVars, guardVars>>

\* lines 253-255: the converted amount, then
\* `await this.getOrCreateBalance(manager, wallet.id, fromCurrency)`: the
\* source balance row is locked, or created and saved
ExecuteTrade_FromBalance(p) ==
    /\ pc[p] = "convert"
    /\ \E cf \in Candidates(p, tx[p], local[p].wallet, req[p].fromCurrency) :
          LET convertedAmount == req[p].amount * local[p].rate
              gf == GetOrCreateBalance(tx[p], local[p].wallet,
                                       req[p].fromCurrency, cf)
          IN  /\ rowLock' = [rowLock EXCEPT ![p] = @ \cup LockedRows({cf})]
              /\ tx' = [tx EXCEPT ![p] = gf.tx]
              /\ local' = [local EXCEPT
                               ![p].convertedAmount = convertedAmount,
                               ![p].fromBalance = gf.entity]
              /\ pc' = [pc EXCEPT ![p] = "toBalance"]
    /\ UNCHANGED <<balances, transactions, walletLock, req, pool, faults, cache, fx, fbVars, authVars, guardVars>>

\* lines 256-283: the target balance lookup, the funds check on the source
\* balance, the four assignments, the save of both entities and of the
\* ledger row
ExecuteTrade_Execute(p) ==
    /\ pc[p] = "toBalance" /\ req[p].type = "TRADE"
    /\ \E ct \in Candidates(p, tx[p], local[p].wallet, req[p].toCurrency) :
          LET rate == local[p].rate
              convertedAmount == local[p].convertedAmount
              gt == GetOrCreateBalance(tx[p], local[p].wallet,
                                       req[p].toCurrency, ct)
              f == Debit(local[p].fromBalance, req[p].amount)
              t == Credit(gt.entity, convertedAmount)
          IN  /\ rowLock' = [rowLock EXCEPT ![p] = @ \cup LockedRows({ct})]
              /\ IF HasInsufficientFunds(local[p].fromBalance, req[p].amount)
                 THEN Throw(p, gt.tx, "INSUFFICIENT_FUNDS")
                 ELSE Saves(p, [local[p] EXCEPT !.fromBalance = f,
                                                !.toBalance = t],
                            gt.tx, SaveBalance(SaveBalance(gt.tx, f), t),
                            LedgerEntry(req[p], local[p].wallet, rate,
                                        convertedAmount))
    /\ UNCHANGED <<balances, transactions, walletLock, pool, faults, cache, fx, fbVars, authVars, guardVars>>

\* ------------------------------------------- commit, rollback and failures
\* end of the transaction: every row lock it took is released
ReleaseLocks(p) ==
    /\ walletLock' = [u \in WalletOwners |->
                         IF walletLock[u] = p THEN 0 ELSE walletLock[u]]
    /\ rowLock' = [rowLock EXCEPT ![p] = {}]

\* a commit whose ledger rows are placed in front of the existing ones
CommitLedgerInFront(p) ==
    /\ pc[p] = "commit"
    /\ balances' = CommitBalances(balances, tx[p])
    /\ transactions' = tx[p].ledger \o transactions
    /\ ReleaseLocks(p)
    /\ pc' = [pc EXCEPT ![p] = "idle"]
    /\ tx' = [tx EXCEPT ![p] = NoTx]
    /\ local' = [local EXCEPT ![p] = NoLocal]
    /\ req' = [req EXCEPT ![p] = NoRequest]
    /\ UNCHANGED <<pool, faults, cache, fx, fbVars, authVars, guardVars>>

\* queryRunner.commitTransaction() then release(): writes become visible,
\* locks are dropped, the saved transaction is returned
Commit(p) ==
    /\ pc[p] = "commit"
    /\ balances' = CommitBalances(balances, tx[p])
    /\ transactions' = transactions \o tx[p].ledger
    /\ ReleaseLocks(p)
    /\ pc' = [pc EXCEPT ![p] = "idle"]
    /\ tx' = [tx EXCEPT ![p] = NoTx]
    /\ local' = [local EXCEPT ![p] = NoLocal]
    /\ req' = [req EXCEPT ![p] = NoRequest]
    /\ UNCHANGED <<pool, faults, cache, fx, fbVars, authVars, guardVars>>

\* a catch block whose balance saves were made outside the transaction:
\* the rollback discards the ledger row only
RollbackKeepsWrites(p) ==
    /\ pc[p] = "failed"
    /\ balances' = CommitBalances(balances, tx[p])
    /\ ReleaseLocks(p)
    /\ pc' = [pc EXCEPT ![p] = "idle"]
    /\ tx' = [tx EXCEPT ![p] = NoTx]
    /\ local' = [local EXCEPT ![p] = NoLocal]
    /\ UNCHANGED <<transactions, req, pool, faults, cache, fx, fbVars, authVars, guardVars>>

\* catch block: queryRunner.rollbackTransaction(), rethrow, then release()
Rollback(p) ==
    /\ pc[p] = "failed"
    /\ ReleaseLocks(p)
    /\ pc' = [pc EXCEPT ![p] = "idle"]
    /\ tx' = [tx EXCEPT ![p] = NoTx]
    /\ local' = [local EXCEPT ![p] = NoLocal]
    /\ UNCHANGED <<balances, transactions, req, pool, faults, cache, fx, fbVars, authVars, guardVars>>

\* the error response of a rejected call has been sent
Respond(p) ==
    /\ pc[p] = "rejected"
    /\ pc' = [pc EXCEPT ![p] = "idle"]
    /\ local' = [local EXCEPT ![p] = NoLocal]
    /\ req' = [req EXCEPT ![p] = NoRequest]
    /\ UNCHANGED <<balances, transactions, walletLock, rowLock, tx, pool,
                   faults, cache, fx, fbVars, authVars, guardVars>>

\* an awaited database call (a findOne, the save of a created balance, the
\* commit) rejects with a non-HTTP error
StorageFailure(p) ==
    /\ faults
    /\ pc[p] \in {"findWallet", "findToWallet", "execute", "convert",
                  "toBalance", "ensureBalance", "commit"}
    /\ ~(pc[p] = "execute" /\ req[p].type = "TRADE")
    /\ Throw(p, tx[p], "INTERNAL_SERVER_ERROR")
    /\ UNCHANGED <<balances, transactions, walletLock, rowLock, pool, faults, cache, fx, fbVars, authVars, guardVars>>

\* handlers that hold a lock p is waiting for
Blockers(p) ==
    IF pc[p] = "findWallet" /\ req[p].userId \in WalletOwners
    THEN {walletLock[req[p].userId]} \ {0, p}
    ELSE IF pc[p] = "findToWallet" /\ req[p].toUserId \in WalletOwners
    THEN {walletLock[req[p].toUserId]} \ {0, p}
    ELSE {}

RECURSIVE WaitChain(_, _)
WaitChain(S, n) ==
    IF n = 0 THEN S
    ELSE WaitChain(S \cup UNION {Blockers(q) : q \in S}, n - 1)

\* p waits, directly or through others, for a lock held by a handler that
\* waits for p
InWaitCycle(p) ==
    /\ Blockers(p) # {}
    /\ p \in WaitChain(Blockers(p), NumProcs)

\* PostgreSQL's deadlock detector makes the waiting statement of one member
\* of a wait cycle fail; the error reaches the catch block
DeadlockAbort(p) ==
    /\ InWaitCycle(p)
    /\ Throw(p, tx[p], "INTERNAL_SERVER_ERROR")
    /\ UNCHANGED <<balances, transactions, walletLock, rowLock, pool, faults, cache, fx, fbVars, authVars, guardVars>>

Next ==
    \E p \in Procs :
        \/ FundWallet_Begin(p)
        \/ FundWallet_FindWallet(p)
        \/ FundWallet_Execute(p)
        \/ TransferFunds_Begin(p)
        \/ TransferFunds_FindFromWallet(p)
        \/ TransferFunds_FindToWallet(p)
        \/ TransferFunds_FromBalance(p)
        \/ TransferFunds_Execute(p)
        \/ ExecuteTrade_Begin(p)
        \/ ExecuteTrade_FindWallet(p)
        \/ ExecuteTrade_GetRates(p)
        \/ ExecuteTrade_Fetch(p)
        \/ Retry_Sleep(p)
        \/ ExecuteTrade_FromBalance(p)
        \/ ExecuteTrade_Execute(p)
        \/ Commit(p)
        \/ Rollback(p)
        \/ Respond(p)
        \/ StorageFailure(p)
        \/ DeadlockAbort(p)

Spec == Init /\ [][Next]_vars

\* ------------------------------------- concurrent debits of one balance
\* transfers and trades of owner u that each need the whole amount a held in
\* currency c and whose wallets exist
SpendRequests(u, c, a) ==
    {r \in LedgerRequests :
        /\ r.type \in {"TRANSFER", "TRADE"}
        /\ r.userId = u /\ r.fromCurrency = c /\ r.amount = a
        /\ r.toUserId \in WalletOwners}

\* the state after fundWallet(u, a, c) committed and every handler has
\* accepted one such request and opened its transaction; storage and the FX
\* service answer every call
InitDS ==
    \E u \in Verified \cap WalletOwners, c \in Currency, a \in Amounts \ {0} :
        LET funded == CHOOSE r \in FundRequests :
                          r.userId = u /\ r.fromCurrency = c /\ r.amount = a
        IN  /\ balances = <<RowOf(Credit(EntityOf("new", 1,
                                                  NewBalanceRow(u, c)), a))>>
            /\ transactions = <<LedgerEntry(funded, u, 1, a)>>
            /\ pool = SpendRequests(u, c, a)
            /\ req \in [Procs -> SpendRequests(u, c, a)]
            /\ walletLock = [w \in WalletOwners |-> 0]
            /\ rowLock = [p \in Procs |-> {}]
            /\ pc = [p \in Procs |-> "findWallet"]
            /\ local = [p \in Procs |-> NoLocal]
            /\ tx = [p \in Procs |-> NoTx]
            /\ faults = FALSE
            /\ cache = [b \in Currency |-> NoTable]
            /\ fx = [p \in Procs |-> NoCall]
            /\ fallbackRates = InitializeFallbackRates(0)
            /\ refresh = NoRefresh
            /\ now = 0
            /\ users = InitialUsers
            /\ auth = [p \in Procs |-> NoVerify]
            /\ limits = [k \in RateLimitKeys |-> NoEntry]
            /\ guard = [p \in Procs |-> NoGuard]
            /\ clock = 0
            /\ served = <<>>
            /\ ttlUnit = "seconds"

NextDS ==
    \E p \in Procs :
        \/ TransferFunds_FindFromWallet(p)
        \/ TransferFunds_FindToWallet(p)
        \/ TransferFunds_FromBalance(p)
        \/ TransferFunds_Execute(p)
        \/ ExecuteTrade_FindWallet(p)
        \/ ExecuteTrade_GetRates(p)
        \/ ExecuteTrade_Fetch(p)
        \/ ExecuteTrade_FromBalance(p)
        \/ ExecuteTrade_Execute(p)
        \/ Commit(p)
        \/ Rollback(p)

SpecDS == InitDS /\ [][NextDS]_vars

\* ------------------------------------------------ observations of a state
RECURSIVE SumRows(_, _, _)
SumRows(bals, S, field) ==
    IF S = {} THEN 0
    ELSE LET i == CHOOSE j \in S : TRUE
         IN  bals[i][field] + SumRows(bals, S \ {i}, field)

\* the committed balance of (walletId, currency); all zero when no row exists
BalanceOf(bals, walletId, currency) ==
    LET m == CommittedMatches(bals, walletId, currency)
    IN  [balance |-> SumRows(bals, m, "balance"),
         lockedBalance |-> SumRows(bals, m, "lockedBalance"),
         availableBalance |-> SumRows(bals, m, "availableBalance")]

\* sum of balance over all owners for one currency
TotalOfCurrency(bals, currency) ==
    SumRows(bals, {i \in 1..Len(bals) : bals[i].currency = currency},
            "balance")

\* balance keys and wallet owners an operation names
KeysOf(r) == {<<r.userId, r.fromCurrency>>, <<r.toUserId, r.toCurrency>>}
OwnersOf(r) == {r.userId, r.toUserId}

\* balance keys handler p has obtained from getOrCreateBalance and not yet
\* released: rows it locked and rows it inserted
HeldKeys(p) ==
    {<<balances[i].walletId, balances[i].currency>> : i \in rowLock[p]}
    \cup {<<tx[p].inserted[i].walletId, tx[p].inserted[i].currency>> :
            i \in 1..Len(tx[p].inserted)}

HeldWallets(p) == {u \in WalletOwners : walletLock[u] = p}

\* the wallet row handler p is about to lock, if it is at a findOne(Wallet)
WantedWallet(p) ==
    IF pc[p] = "findWallet" THEN req[p].userId
    ELSE IF pc[p] = "findToWallet" THEN req[p].toUserId
    ELSE NoWallet

\* handler p is at a findOne(Wallet) that cannot return yet
Waits(p) ==
    /\ WantedWallet(p) \in WalletOwners
    /\ ~WalletFree(p, WantedWallet(p))

\* handler p takes the step from position `from` to position `to`
Moves(p, from, to) == pc[p] = from /\ pc'[p] = to

\* ------------------------------------------------------------------ claims

\* C1: in every committed state every balance row satisfies
\* balance = lockedBalance + availableBalance and availableBalance >= 0.
C1_BalanceInvariant ==
    \A i \in 1..Len(balances) :
        /\ balances[i].balance =
              balances[i].lockedBalance + balances[i].availableBalance
        /\ balances[i].availableBalance >= 0

\* C2: of the handlers that concurrently debit one balance holding funds for
\* exactly one of them, at most one commits, a handler fails only with
\* insufficient funds and only after the one commit, once all have finished
\* exactly one has committed, and the balance is debited at most once.
SpendsCommitted ==
    Cardinality({i \in 1..Len(transactions) :
                    transactions[i].type \in {"TRANSFER", "TRADE"}})

C2_NoDoubleSpend ==
    /\ SpendsCommitted <= 1
    /\ \A p \in Procs :
          pc[p] = "failed" =>
              local[p].err = "INSUFFICIENT_FUNDS" /\ SpendsCommitted = 1
    /\ (\A p \in Procs : pc[p] = "idle") => SpendsCommitted = 1
    /\ balances[1].balance >= 0 /\ balances[1].availableBalance >= 0
    /\ balances[1].balance = 0 <=> SpendsCommitted = 1

\* one debit has committed and another handler has failed the funds check
C2_Witness ==
    /\ SpendsCommitted = 1
    /\ \E p \in Procs :
          pc[p] = "failed" /\ local[p].err = "INSUFFICIENT_FUNDS"

\* C3: a transfer A->B running with a transfer B->A never reaches a state in
\* which each handler waits for a wallet lock the other holds.
C3_NoWaitCycle == \A p \in Procs : ~InWaitCycle(p)

\* C6: no two handlers hold the same (owner, currency) balance at once.
C6_MutualExclusion ==
    \A p, q \in Procs : p # q => HeldKeys(p) \cap HeldKeys(q) = {}

\* a handler holds a balance key that a waiting handler's operation names
C6_Witness ==
    \E p, q \in Procs :
        /\ p # q /\ Waits(q) /\ p \in Blockers(q)
        /\ HeldKeys(p) \cap KeysOf(req[q]) # {}

\* C7 as stated: a handler waits only for an operation that shares a balance
\* key with its own.
C7_DisjointKeysNeverWait ==
    \A p \in Procs :
        Waits(p) =>
            \E q \in Procs \ {p} :
                /\ HeldWallets(q) # {}
                /\ req[q] # NoRequest =>
                      KeysOf(req[p]) \cap KeysOf(req[q]) # {}

\* C7 amended: a handler waits only while another handler holds the wallet of
\* an owner its operation names; operations that share no owner never wait
\* for each other.
C7_DisjointOwnersNeverWait ==
    \A p \in Procs :
        Waits(p) =>
            \E q \in Procs \ {p} :
                /\ HeldWallets(q) \cap OwnersOf(req[p]) # {}
                /\ req[q] # NoRequest =>
                      OwnersOf(req[q]) \cap OwnersOf(req[p]) # {}

\* two operations that share no owner hold their wallet locks at once
C7_Witness ==
    \E p, q \in Procs :
        /\ p # q /\ HeldWallets(p) # {} /\ HeldWallets(q) # {}
        /\ req[p] # NoRequest /\ req[q] # NoRequest
        /\ OwnersOf(req[p]) \cap OwnersOf(req[q]) = {}

\* the ledger after the step is the ledger before it plus the one entry e
AppendsOne(e) == transactions' = Append(transactions, e)

\* every balance outside the keys K has the value it had
OthersUnchanged(K) ==
    \A u \in WalletOwners, c \in Currency :
        <<u, c>> \notin K =>
            BalanceOf(balances', u, c) = BalanceOf(balances, u, c)

\* C4: a step in which a handler's try block fails, and the rollback that
\* follows it, leave the committed balances and the committed ledger as they
\* were; after the rollback the handler holds no write and no lock.
C4_RollbackAtomic ==
    [][\A p \in Procs :
          /\ (pc[p] # "failed" /\ pc'[p] = "failed") =>
                 UNCHANGED <<balances, transactions>>
          /\ Moves(p, "failed", "idle") =>
                 /\ UNCHANGED <<balances, transactions>>
                 /\ tx'[p] = NoTx /\ rowLock'[p] = {}
                 /\ \A u \in WalletOwners : walletLock'[u] # p]_vars

\* a transfer or trade has failed with a storage error after its debit, its
\* credit and its ledger row were saved inside the transaction
C4_Witness ==
    \E p \in Procs :
        /\ pc[p] = "failed" /\ local[p].err = "INTERNAL_SERVER_ERROR"
        /\ tx[p].updated # {} /\ tx[p].ledger # <<>>
        /\ tx[p].ledger[1].type \in {"TRANSFER", "TRADE"}

\* C5: the commit of a transfer of X in currency C from A to B lowers A's
\* balance in C by X, raises B's by X, keeps the sum over all owners for C,
\* and changes no other balance.
C5_TransferConservation ==
    [][\A p \in Procs :
          (Moves(p, "commit", "idle") /\ req[p].type = "TRANSFER") =>
              LET r == req[p]
                  c == r.fromCurrency
              IN  /\ BalanceOf(balances', r.userId, c).balance =
                        BalanceOf(balances, r.userId, c).balance - r.amount
                  /\ BalanceOf(balances', r.toUserId, c).balance =
                        BalanceOf(balances, r.toUserId, c).balance + r.amount
                  /\ TotalOfCurrency(balances', c) =
                        TotalOfCurrency(balances, c)
                  /\ OthersUnchanged({<<r.userId, c>>, <<r.toUserId, c>>})]_vars

\* a transfer is in the ledger and its receiver holds the amount
C5_Witness ==
    \E i \in 1..Len(transactions) :
        /\ transactions[i].type = "TRANSFER"
        /\ \E v \in WalletOwners \ {transactions[i].userId} :
              BalanceOf(balances, v, transactions[i].fromCurrency).balance
                  = transactions[i].amount

\* C8: the commit of fundWallet(owner, amount, currency) raises that owner's
\* balance and availableBalance in that currency by amount (the row exists
\* afterwards), keeps lockedBalance and every other balance, and adds exactly
\* one ledger entry FUNDING / COMPLETED / rate 1 / convertedAmount = amount.
C8_FundWalletEffect ==
    [][\A p \in Procs :
          (Moves(p, "commit", "idle") /\ req[p].type = "FUNDING") =>
              LET r == req[p]
                  before == BalanceOf(balances, r.userId, r.fromCurrency)
                  after == BalanceOf(balances', r.userId, r.fromCurrency)
              IN  /\ after.balance = before.balance + r.amount
                  /\ after.availableBalance =
                        before.availableBalance + r.amount
                  /\ after.lockedBalance = before.lockedBalance
                  /\ CommittedMatches(balances', r.userId,
                                      r.fromCurrency) # {}
                  /\ OthersUnchanged({<<r.userId, r.fromCurrency>>})
                  /\ AppendsOne([userId |-> r.userId, walletId |-> r.userId,
                                 type |-> "FUNDING", status |-> "COMPLETED",
                                 amount |-> r.amount,
                                 fromCurrency |-> r.fromCurrency,
                                 toCurrency |-> r.fromCurrency,
                                 rate |-> 1,
                                 convertedAmount |-> r.amount,
                                 reference |-> r.reference])]_vars

\* the ledger holds one funding and the funded balance holds its amount
C8_Witness ==
    /\ Len(transactions) = 1 /\ transactions[1].type = "FUNDING"
    /\ BalanceOf(balances, transactions[1].userId,
                 transactions[1].fromCurrency).availableBalance
          = transactions[1].amount

\* C9: the commit of executeTrade(owner, from, to, amount) with resolved rate
\* r lowers the from-currency balance and availableBalance by amount, raises
\* the to-currency ones by amount * r, and adds exactly one ledger entry
\* TRADE / COMPLETED with that rate r and convertedAmount = amount * r.
C9_ExecuteTradeEffect ==
    [][\A p \in Procs :
          (Moves(p, "commit", "idle") /\ req[p].type = "TRADE") =>
              LET r == req[p]
                  rate == local[p].rate
                  fromBefore == BalanceOf(balances, r.userId, r.fromCurrency)
                  fromAfter == BalanceOf(balances', r.userId, r.fromCurrency)
                  toBefore == BalanceOf(balances, r.userId, r.toCurrency)
                  toAfter == BalanceOf(balances', r.userId, r.toCurrency)
              IN  /\ fromAfter.balance = fromBefore.balance - r.amount
                  /\ fromAfter.availableBalance =
                        fromBefore.availableBalance - r.amount
                  /\ toAfter.balance = toBefore.balance + r.amount * rate
                  /\ toAfter.availableBalance =
                        toBefore.availableBalance + r.amount * rate
                  /\ AppendsOne([userId |-> r.userId, walletId |-> r.userId,
                                 type |-> "TRADE", status |-> "COMPLETED",
                                 amount |-> r.amount,
                                 fromCurrency |-> r.fromCurrency,
                                 toCurrency |-> r.toCurrency,
                                 rate |-> rate,
                                 convertedAmount |-> r.amount * rate,
                                 reference |-> NoReference])]_vars

\* a trade at rate 2 is in the ledger and its target balance holds twice the
\* amount
C9_Witness ==
    \E i \in 1..Len(transactions) :
        /\ transactions[i].type = "TRADE" /\ transactions[i].rate = 2
        /\ BalanceOf(balances, transactions[i].userId,
                     transactions[i].toCurrency).balance
              = 2 * transactions[i].amount

\* where an attempt looks its source balance up: a transfer after its wallets
\* are found (line 180), a trade after its rate is resolved (line 255); the
\* target balance lookup and the comparison follow at "toBalance"
FundsCheck(p) == IF req[p].type = "TRADE" THEN "convert" ELSE "execute"

SourceWallet(p) ==
    IF req[p].type = "TRANSFER" THEN local[p].fromWallet ELSE local[p].wallet

SourceAvailable(p) ==
    BalanceOf(balances, SourceWallet(p), req[p].fromCurrency).availableBalance

\* C10: a transfer or trade whose source balance has less available than the
\* amount never reaches its saves. Its source lookup leads to the target
\* lookup or to the catch block; the step after the target lookup throws the
\* insufficient-funds error, unless the store rejected that lookup, which
\* gives the internal error with the source row still locked or created and
\* nothing else done. No step of the two saves a balance change or a ledger
\* row or changes the committed balances and ledger, and the rollback of the
\* failed attempt leaves both as they were and drops every balance row the
\* attempt created.
C10_InsufficientFundsNoEffect ==
    [][\A p \in Procs :
          /\ ( /\ pc[p] \in {FundsCheck(p), "toBalance"} /\ pc'[p] # pc[p]
               /\ req[p].type \in {"TRANSFER", "TRADE"}
               /\ SourceAvailable(p) < req[p].amount ) =>
                 /\ pc'[p] \in {"toBalance", "failed"}
                 /\ pc[p] = "toBalance" =>
                        /\ pc'[p] = "failed"
                        /\ local'[p].err \in {"INSUFFICIENT_FUNDS",
                                              "INTERNAL_SERVER_ERROR"}
                        /\ ~faults => local'[p].err = "INSUFFICIENT_FUNDS"
                 /\ (pc'[p] = "failed"
                       /\ local'[p].err # "INSUFFICIENT_FUNDS") =>
                        /\ local'[p].err = "INTERNAL_SERVER_ERROR"
                        /\ tx'[p] = tx[p] /\ rowLock'[p] = rowLock[p]
                 /\ tx'[p].updated = {} /\ tx'[p].ledger = <<>>
                 /\ UNCHANGED <<balances, transactions>>
          /\ ( /\ Moves(p, "failed", "idle")
               /\ local[p].err \in {"INSUFFICIENT_FUNDS",
                                     "INTERNAL_SERVER_ERROR"} ) =>
                 /\ UNCHANGED <<balances, transactions>>
                 /\ tx'[p] = NoTx]_vars

\* an attempt has failed the funds check after creating a balance row
C10_Witness ==
    \E p \in Procs :
        /\ pc[p] = "failed" /\ local[p].err = "INSUFFICIENT_FUNDS"
        /\ tx[p].inserted # <<>>

\* what a call rejected before its transaction leaves alone
NothingTouched == UNCHANGED <<balances, transactions, walletLock, rowLock, tx>>

\* handler p accepts a call in this step
AcceptsCall(p) == pc[p] = "idle" /\ pc'[p] # "idle"

\* C11: a call on behalf of a user who is absent or not email-verified is
\* rejected as not eligible in the step that accepts it, with no transaction
\* opened and no lock taken, and neither that step nor its response changes
\* a balance or the ledger.
C11_IneligibleRejected ==
    [][\A p \in Procs :
          /\ (AcceptsCall(p) /\ req'[p].userId \notin Verified) =>
                 /\ pc'[p] = "rejected" /\ local'[p].err = "FORBIDDEN"
                 /\ NothingTouched
          /\ (pc[p] = "rejected" /\ local[p].err = "FORBIDDEN") =>
                 /\ pc'[p] \in {"rejected", "idle"}
                 /\ pc'[p] = "idle" => NothingTouched]_vars

\* a call of the unverified user has been rejected while another handler is
\* inside a transaction
C11_Witness ==
    \E p, q \in Procs :
        /\ pc[p] = "rejected" /\ local[p].err = "FORBIDDEN"
        /\ req[p].userId \notin Verified
        /\ pc[q] \in {"execute", "commit"}

\* the validation error a verified caller's request meets first, if any
ValidationError(r) ==
    IF r.type = "TRANSFER" /\ r.userId = r.toUserId THEN "SAME_USER"
    ELSE IF r.type = "TRADE" /\ r.fromCurrency = r.toCurrency
    THEN "SAME_CURRENCY"
    ELSE IF r.amount <= 0 THEN "INVALID_AMOUNT"
    ELSE "NONE"

\* C12: a verified caller's request with amount <= 0, a transfer to oneself
\* or a trade of a currency into itself is rejected in the step that accepts
\* it with the matching error, is never taken up again, and takes no lock,
\* opens no transaction and changes no state.
C12_ValidationRejected ==
    [][\A p \in Procs :
          /\ ( /\ AcceptsCall(p) /\ req'[p].userId \in Verified
               /\ ValidationError(req'[p]) # "NONE" ) =>
                 /\ pc'[p] = "rejected"
                 /\ local'[p].err = ValidationError(req'[p])
                 /\ NothingTouched
          /\ ( /\ pc[p] = "rejected"
               /\ local[p].err \in {"SAME_USER", "SAME_CURRENCY",
                                    "INVALID_AMOUNT"} ) =>
                 /\ pc'[p] \in {"rejected", "idle"}
                 /\ pc'[p] = "idle" => NothingTouched]_vars

\* a verified caller's call with amount 0 has been rejected
C12_Witness ==
    \E p \in Procs :
        /\ pc[p] = "rejected" /\ local[p].err = "INVALID_AMOUNT"
        /\ req[p].userId \in Verified /\ req[p].amount <= 0

\* ------------------------------------------- trades and the rate service
\* the ledger operations with a database that fails only at the saves, so
\* that a trade failing before its balance lookups has failed at the rate
NextRate ==
    \E p \in Procs :
        \/ FundWallet_Begin(p)
        \/ FundWallet_FindWallet(p)
        \/ FundWallet_Execute(p)
        \/ TransferFunds_Begin(p)
        \/ TransferFunds_FindFromWallet(p)
        \/ TransferFunds_FindToWallet(p)
        \/ TransferFunds_FromBalance(p)
        \/ TransferFunds_Execute(p)
        \/ ExecuteTrade_Begin(p)
        \/ ExecuteTrade_FindWallet(p)
        \/ ExecuteTrade_GetRates(p)
        \/ ExecuteTrade_Fetch(p)
        \/ Retry_Sleep(p)
        \/ ExecuteTrade_FromBalance(p)
        \/ ExecuteTrade_Execute(p)
        \/ Commit(p)
        \/ Rollback(p)
        \/ Respond(p)
        \/ DeadlockAbort(p)

SpecRate == Init /\ [][NextRate]_vars

\* the step in which the rate lookup of handler p's trade fails: the trade
\* leaves line 248-252 for the catch block before any balance lookup
RateLookupFails(p) ==
    /\ pc[p] = "execute" /\ req[p].type = "TRADE" /\ pc'[p] = "failed"

\* C13: whenever the rate lookup of a trade fails, the trade fails with the
\* service-unavailable error and no balance or ledger entry changes.
C13_RateFailureUnavailable ==
    [][\A p \in Procs :
          RateLookupFails(p) =>
              /\ local'[p].err = "SERVICE_UNAVAILABLE"
              /\ UNCHANGED <<balances, transactions>>]_vars

\* C14: the fundings of one owner that carry the same reference produce at
\* most one FUNDING ledger entry, so the owner is credited at most once.
C14_FundingIdempotent ==
    \A i, j \in 1..Len(transactions) :
        ( /\ i # j
          /\ transactions[i].type = "FUNDING"
          /\ transactions[j].type = "FUNDING"
          /\ transactions[i].userId = transactions[j].userId )
            => transactions[i].reference # transactions[j].reference

\* ------------------------------------------------------------- progress
\* steps of handler p that wait for nothing but p itself and the database:
\* the statements after the wallet locks, the cache lookup, the setTimeout
\* between two fetches, commit, rollback, and the error PostgreSQL raises in
\* a handler caught in a wait cycle. The HTTP request of getRates
\* (ExecuteTrade_Fetch) is not among them: HttpModule is imported without a
\* timeout (fx.module.ts:11, wallet.module.ts:18), so nothing in the code
\* makes that call settle
Progress(p) ==
    \/ FundWallet_Execute(p)
    \/ TransferFunds_FromBalance(p)
    \/ TransferFunds_Execute(p)
    \/ ExecuteTrade_GetRates(p)
    \/ Retry_Sleep(p)
    \/ ExecuteTrade_FromBalance(p)
    \/ ExecuteTrade_Execute(p)
    \/ Commit(p)
    \/ Rollback(p)
    \/ DeadlockAbort(p)

\* steps of handler p that wait for a wallet row lock
Acquire(p) ==
    \/ FundWallet_FindWallet(p)
    \/ TransferFunds_FindFromWallet(p)
    \/ TransferFunds_FindToWallet(p)
    \/ ExecuteTrade_FindWallet(p)

\* every awaited database call of a handler returns or rejects, and a lock
\* read of a row that stays free is granted; no wait for a held row is
\* bounded (no lock timeout, no nowait) and no order among the waiters of a
\* row is assumed
SpecLive ==
    /\ Init /\ [][Next]_vars
    /\ \A p \in Procs : WF_vars(Progress(p)) /\ WF_vars(Acquire(p))

InTransaction ==
    {"findWallet", "findToWallet", "execute", "convert", "toBalance",
     "commit", "failed"}

\* C15: every attempt that has started its transaction eventually ends, it
\* ends only by the commit step or by the rollback step, and after that step
\* the handler holds no lock and no uncommitted write.
C15_AttemptsTerminate ==
    /\ \A p \in Procs : (pc[p] \in InTransaction) ~> (pc[p] = "idle")
    /\ [][\A p \in Procs :
             (pc[p] \in InTransaction /\ pc'[p] \notin InTransaction) =>
                 /\ Moves(p, "commit", "idle") \/ Moves(p, "failed", "idle")
                 /\ HeldWallets(p)' = {} /\ rowLock'[p] = {}
                 /\ tx'[p] = NoTx]_vars

\* a step in which handler p, at a findOne(Wallet), stops waiting and goes
\* to its catch block
GivesUp(p) ==
    /\ pc[p] \in {"findWallet", "findToWallet"}
    /\ NextDS
    /\ pc'[p] = "failed"

\* C16: a handler that waits for a wallet lock can always end its wait by
\* aborting: the step to its catch block (and from there to the rollback) is
\* possible in every state in which it waits.
C16_WaiterCanAbort == \A p \in Procs : Waits(p) => ENABLED GivesUp(p)

\* ------------------------------------------------------ getWalletBalances
\* lines 58-72: eligibility, the wallet read with its balances relation (no
\* lock, outside any transaction); a wallet that has balances is returned as
\* it is, for one without a transaction is started
GetWalletBalances_Begin(p) ==
    /\ Accepts(p)
    /\ \E r \in pool \cap BalanceRequests :
          LET wallet == WalletFound(r.userId)
          IN  IF ~UserIsVerified(r.userId) THEN Reject(p, r, "FORBIDDEN")
              ELSE IF wallet = NoWallet THEN Reject(p, r, "NOT_FOUND")
              ELSE IF \E i \in 1..Len(balances) : balances[i].walletId = wallet
              THEN UNCHANGED vars
              ELSE /\ pc' = [pc EXCEPT ![p] = "ensureBalance"]
                   /\ req' = [req EXCEPT ![p] = r]
                   /\ local' = [local EXCEPT ![p].wallet = wallet]
                   /\ UNCHANGED <<balances, transactions, walletLock,
                                  rowLock, tx, pool, faults, cache, fx, fbVars, authVars, guardVars>>

\* line 74: getOrCreateBalance(manager, wallet.id, Currency.NGN), with no
\* wallet row lock taken before it
GetWalletBalances_Ensure(p) ==
    /\ pc[p] = "ensureBalance"
    /\ \E c \in Candidates(p, tx[p], local[p].wallet, DefaultCurrency) :
          LET g == GetOrCreateBalance(tx[p], local[p].wallet,
                                      DefaultCurrency, c)
          IN  /\ rowLock' = [rowLock EXCEPT ![p] = @ \cup LockedRows({c})]
              /\ tx' = [tx EXCEPT ![p] = g.tx]
              /\ local' = [local EXCEPT ![p].balance = g.entity]
              /\ pc' = [pc EXCEPT ![p] = "commit"]
    /\ UNCHANGED <<balances, transactions, walletLock, req, pool, faults, cache, fx, fbVars, authVars, guardVars>>

\* callers read their balances and fund their wallets
InitGB ==
    /\ balances = <<>>
    /\ transactions = <<>>
    /\ walletLock = [u \in WalletOwners |-> 0]
    /\ rowLock = [p \in Procs |-> {}]
    /\ pc = [p \in Procs |-> "idle"]
    /\ req = [p \in Procs |-> NoRequest]
    /\ local = [p \in Procs |-> NoLocal]
    /\ tx = [p \in Procs |-> NoTx]
    /\ pool = BalanceRequests \cup (LedgerRequests \cap FundRequests)
    /\ faults = TRUE
    /\ cache = [b \in Currency |-> NoTable]
    /\ fx = [p \in Procs |-> NoCall]
    /\ fallbackRates = InitializeFallbackRates(0)
    /\ refresh = NoRefresh
    /\ now = 0
    /\ users = InitialUsers
    /\ auth = [p \in Procs |-> NoVerify]
    /\ limits = [k \in RateLimitKeys |-> NoEntry]
    /\ guard = [p \in Procs |-> NoGuard]
    /\ clock = 0
    /\ served = <<>>
    /\ ttlUnit = "seconds"

NextGB ==
    \E p \in Procs :
        \/ GetWalletBalances_Begin(p)
        \/ GetWalletBalances_Ensure(p)
        \/ FundWallet_Begin(p)
        \/ FundWallet_FindWallet(p)
        \/ FundWallet_Execute(p)
        \/ Commit(p)
        \/ Rollback(p)
        \/ Respond(p)
        \/ StorageFailure(p)

SpecGB == InitGB /\ [][NextGB]_vars

\* C17: at most one committed balance row exists for every (wallet,
\* currency) pair, and a row getWalletBalances adds is all zero.
C17_NoDuplicateBalances ==
    /\ \A u \in WalletOwners, c \in Currency \cup {DefaultCurrency} :
          Cardinality(CommittedMatches(balances, u, c)) <= 1
    /\ \A p \in Procs :
          req[p].type = "BALANCES" =>
              \A i \in 1..Len(tx[p].inserted) :
                  tx[p].inserted[i] =
                      NewBalanceRow(req[p].userId, DefaultCurrency)

\* ------------------------------------ TransactionsService.createTransaction
\* the rows of the transactions table that createTransaction saved: the only
\* writer that sets no walletId
CreatedRows(ledger) ==
    {i \in 1..Len(ledger) : ledger[i].walletId = NoWallet}

\* CreateTransactionParams as the row repository.create builds from them,
\* lines 28-39: every field is the caller's, walletId is not among them
CreateTransactionParams ==
    {[userId |-> "u3", walletId |-> NoWallet, type |-> "FUNDING",
      status |-> "PENDING", amount |-> 1, fromCurrency |-> "USD",
      toCurrency |-> "USD", rate |-> 1, convertedAmount |-> 1,
      reference |-> "ref1"],
     [userId |-> "u1", walletId |-> NoWallet, type |-> "TRADE",
      status |-> "FAILED", amount |-> 1, fromCurrency |-> "USD",
      toCurrency |-> "EUR", rate |-> 2, convertedAmount |-> 2,
      reference |-> NoReference]}

\* createTransaction(params), lines 27-42: repository.create and
\* repository.save on the shared connection, outside any query runner; the
\* user is not checked and no balance is read or written.  The entity
\* declares walletId NOT NULL (transaction.entity.ts 29-30): a store that
\* enforces the column refuses the insert and the table stays as it is, a
\* store that does not keeps the row.  No controller or service under src
\* calls the method; one call is followed per behaviour.
CreateTransaction_Call(params) ==
    /\ CreatedRows(transactions) = {}
    /\ \/ transactions' = Append(transactions, params)
       \/ UNCHANGED transactions
    /\ UNCHANGED <<balances, walletLock, rowLock, pc, req, local, tx, pool,
                   faults, cache, fx, fbVars, authVars, guardVars>>

NextTS ==
    \/ Next
    \/ \E params \in CreateTransactionParams : CreateTransaction_Call(params)

SpecTS == Init /\ [][NextTS]_vars

\* C18: the ledger is append-only: no step shortens the ledger, and every
\* step keeps each existing entry whose status is COMPLETED or FAILED in its
\* place and with all its fields, whichever writer saved it.
C18_LedgerAppendOnly ==
    [][/\ Len(transactions') >= Len(transactions)
       /\ \A i \in 1..Len(transactions) :
             transactions[i].status \in {"COMPLETED", "FAILED"} =>
                 transactions'[i] = transactions[i]]_vars

\* a row createTransaction saved with status FAILED is followed by the entry
\* of a committed funding
C18_Witness ==
    /\ Len(transactions) = 2
    /\ transactions[1].walletId = NoWallet /\ transactions[1].status = "FAILED"
    /\ transactions[2].type = "FUNDING"
    /\ transactions[2].walletId # NoWallet

\* C19: the commit of transferFunds(sender, receiver, amount, currency) adds
\* exactly one ledger entry, TRANSFER / COMPLETED / rate 1 /
\* convertedAmount = amount, carrying the sender's userId and walletId; no
\* entry is added for the receiver.
C19_TransferLedgerEntry ==
    [][\A p \in Procs :
          (Moves(p, "commit", "idle") /\ req[p].type = "TRANSFER") =>
              LET r == req[p]
              IN  /\ AppendsOne([userId |-> r.userId, walletId |-> r.userId,
                                 type |-> "TRANSFER", status |-> "COMPLETED",
                                 amount |-> r.amount,
                                 fromCurrency |-> r.fromCurrency,
                                 toCurrency |-> r.fromCurrency,
                                 rate |-> 1,
                                 convertedAmount |-> r.amount,
                                 reference |-> NoReference])
                  /\ Len(transactions') = Len(transactions) + 1
                  /\ transactions'[Len(transactions')].userId # r.toUserId]_vars

\* the last ledger entry is a transfer in the sender's name and the receiver
\* has no entry of its own
C19_Witness ==
    /\ transactions # <<>>
    /\ LET e == transactions[Len(transactions)]
       IN  /\ e.type = "TRANSFER" /\ e.walletId = e.userId
           /\ e.rate = 1 /\ e.convertedAmount = e.amount
           /\ \A i \in 1..Len(transactions) :
                 transactions[i].userId = e.userId

\* ------------------------------------------- callers of FxService.getRates
\* the caller has received the table or the HttpException
GetRates_Done(p) ==
    /\ fx[p].pc \in {"returned", "thrown"}
    /\ fx' = [fx EXCEPT ![p] = NoCall]
    /\ UNCHANGED <<ledgerVars, cache>>

\* the entry of a key outlives its ttl and is gone
CacheExpire(base) ==
    /\ cache[base] # NoTable
    /\ cache' = [cache EXCEPT ![base] = NoTable]
    /\ UNCHANGED <<ledgerVars, fx>>

NextFX ==
    \/ \E p \in Procs :
          \/ GetRates_Begin(p)
          \/ Retry_Attempt(p)
          \/ Retry_Sleep(p)
          \/ GetRates_Done(p)
    \/ \E base \in Currency : CacheExpire(base)

SpecFX == Init /\ [][NextFX]_vars

\* C20: a getRates(base) call made while the cache holds a table under
\* rates:<base> returns that table at once, having made no live fetch and no
\* cache write, and leaves the cache as it was.
C20_CacheHitReturnsCached ==
    [][\A p \in Procs :
          (/\ fx[p].pc = "idle" /\ fx'[p].pc # "idle"
           /\ cache[fx'[p].base] # NoTable) =>
              /\ fx'[p].pc = "returned"
              /\ fx'[p].result = cache[fx'[p].base]
              /\ fx'[p].fetches = 0 /\ fx'[p].writes = 0
              /\ fx'[p].waited = <<>>
              /\ cache' = cache]_vars

\* a call has returned from a cache hit while the other key is not cached
C20_Witness ==
    \E p \in Procs :
        /\ fx[p].pc = "returned" /\ fx[p].hit
        /\ fx[p].result = cache[fx[p].base]
        /\ \E b \in Currency : cache[b] = NoTable

\* handler p's getRates call starts in this step, for base currency b
BeginsFor(p, b) == fx[p].pc = "idle" /\ fx'[p].pc # "idle" /\ fx'[p].base = b

\* C21: a getRates(base) call that finds no table under rates:<base> goes to
\* the live fetch under the retry policy; the step in which an attempt
\* succeeds stores the fetched table under rates:<base> and returns that
\* table; a getRates for the same base that starts right after it is a cache
\* hit returning the same table.
C21_CacheMissFetchesAndStores ==
    [][\A p \in Procs :
          /\ \A b \in Currency :
                (BeginsFor(p, b) /\ cache[b] = NoTable) =>
                    /\ fx'[p].pc = "fetch" /\ fx'[p].attempt = 1
                    /\ fx'[p].fetches = 0 /\ cache' = cache
          /\ (fx[p].pc = "fetch" /\ fx'[p].pc = "returned") =>
                /\ fx'[p].result \in RateTables
                /\ cache'[fx[p].base] = fx'[p].result
                /\ fx'[p].fetches = fx[p].fetches + 1
                /\ fx'[p].writes = 1 /\ ~fx'[p].hit
                /\ \A b \in Currency \ {fx[p].base} : cache'[b] = cache[b]
          /\ \A q \in Procs :
                (/\ fx[p].pc = "returned" /\ ~fx[p].hit
                 /\ cache[fx[p].base] = fx[p].result
                 /\ BeginsFor(q, fx[p].base)) =>
                    /\ fx'[q].pc = "returned" /\ fx'[q].hit
                    /\ fx'[q].result = fx[p].result]_vars

\* one call has returned a fetched table, and a second call for the same
\* base has returned the same table from the cache
C21_Witness ==
    \E p, q \in Procs :
        /\ fx[p].pc = "returned" /\ ~fx[p].hit /\ fx[p].writes = 1
        /\ fx[q].pc = "returned" /\ fx[q].hit
        /\ fx[q].base = fx[p].base /\ fx[q].result = fx[p].result
        /\ fx[p].result # {}

\* C22: a retried fetch is attempted at most 3 times; the k-th wait, before
\* attempt k+1, is min(1000 * 2^(k-1), 5000) ms; an attempt is preceded by
\* one wait for each earlier attempt and no wait follows the last attempt; a
\* call that succeeds on its third attempt has waited exactly 1000 and then
\* 2000 ms.
C22_RetryPolicy ==
    \A p \in Procs :
        /\ fx[p].fetches <= 3 /\ fx[p].attempt <= 3
        /\ \A k \in 1..Len(fx[p].waited) :
              fx[p].waited[k] = Min(1000 * 2^(k - 1), 5000)
        /\ fx[p].pc = "fetch" =>
              /\ fx[p].fetches = fx[p].attempt - 1
              /\ Len(fx[p].waited) = fx[p].fetches
        /\ fx[p].pc = "sleep" => Len(fx[p].waited) = fx[p].fetches - 1
        /\ (fx[p].pc \in {"returned", "thrown"} /\ ~fx[p].hit) =>
              Len(fx[p].waited) = fx[p].fetches - 1
        /\ (fx[p].pc = "returned" /\ fx[p].fetches = 3) =>
              fx[p].waited = <<1000, 2000>>

\* a call has returned a table from its third attempt
C22_Witness ==
    \E p \in Procs :
        /\ fx[p].pc = "returned" /\ fx[p].fetches = 3
        /\ Len(fx[p].waited) = 2 /\ fx[p].result \in RateTables

\* C23: a getRates call whose live fetch failed on all 3 attempts has thrown
\* service-unavailable, made exactly 3 fetches and no cache write, and
\* carries no rate table.
C23_ExhaustedIsUnavailable ==
    \A p \in Procs :
        (/\ fx[p].pc = "thrown" /\ fx[p].fetches = 3
         /\ fx[p].thrown \in {"response", "request", "error"}) =>
            /\ fx[p].status = "SERVICE_UNAVAILABLE"
            /\ fx[p].writes = 0
            /\ fx[p].result = NoTable

\* ----------------------------------------------- FxService.convertCurrency
\* WalletService.executeTrade, lines 249-252: `if (!rate)` throws
\* SERVICE_UNAVAILABLE
ExecuteTradeRateError(reply) ==
    IF RateIsFalsy(reply) THEN "SERVICE_UNAVAILABLE" ELSE "NONE"

\* convertCurrency, lines 102-110: `rate === undefined || rate === null`
\* throws BAD_REQUEST
ConvertCurrencyError(reply) ==
    IF ~reply.has THEN "BAD_REQUEST" ELSE "NONE"

\* line 97: convertCurrency(fromCurrency, toCurrency, amount) awaits
\* getRates(fromCurrency); the amount is not examined (a quote of 0 for
\* amount 0, test part_007 144-163); the quotes of a behaviour convert USD
ConvertCurrency_Begin(p) ==
    /\ fx[p].pc = "idle"
    /\ \E from \in {"USD"}, to \in Currency, amount \in Amounts :
          fx' = [fx EXCEPT ![p] =
                    BeginCall([NoCall EXCEPT !.base = from, !.to = to,
                                             !.amount = amount])]
    /\ UNCHANGED <<ledgerVars, cache>>

\* lines 102-118: the lookup of the target currency in the resolved table,
\* the rejection of a missing rate, the quote
ConvertCurrency_Lookup(p) ==
    /\ fx[p].pc = "returned" /\ fx[p].to # "none"
    /\ LET reply == RatesLookup(fx[p].result, fx[p].to)
       IN  IF ConvertCurrencyError(reply) # "NONE"
           THEN fx' = [fx EXCEPT ![p] =
                          [@ EXCEPT !.pc = "thrown", !.thrown = "noRate",
                                    !.status = ConvertCurrencyError(reply)]]
           ELSE fx' = [fx EXCEPT ![p] =
                          [@ EXCEPT !.pc = "quoted", !.quoted = TRUE,
                                    !.rate = reply.rate,
                                    !.convertedAmount =
                                        fx[p].amount * reply.rate]]
    /\ UNCHANGED <<ledgerVars, cache>>

\* the caller has received the quote or the HttpException
ConvertCurrency_Done(p) ==
    /\ fx[p].pc \in {"quoted", "thrown"}
    /\ fx' = [fx EXCEPT ![p] = NoCall]
    /\ UNCHANGED <<ledgerVars, cache>>

NextQuote ==
    \/ \E p \in Procs :
          \/ ConvertCurrency_Begin(p)
          \/ Retry_Attempt(p)
          \/ Retry_Sleep(p)
          \/ ConvertCurrency_Lookup(p)
          \/ ConvertCurrency_Done(p)
    \/ \E base \in Currency : CacheExpire(base)

SpecQuote == Init /\ [][NextQuote]_vars

\* C24: a convertCurrency call whose resolved rate table has no entry for the
\* target currency fails with service-unavailable, the error executeTrade
\* raises for the same table and target, and carries no converted amount.
C24_MissingTargetUnavailable ==
    \A p \in Procs :
        (fx[p].pc = "thrown" /\ fx[p].thrown = "noRate") =>
            /\ fx[p].status = "SERVICE_UNAVAILABLE"
            /\ fx[p].status =
                  ExecuteTradeRateError(RatesLookup(fx[p].result, fx[p].to))
            /\ ~fx[p].quoted

\* ------------------------------------------------- FallbackRatesService
\* everything but the fallback table, the refresh call and the clock
restVars == <<balances, transactions, walletLock, rowLock, pc, req, local,
              tx, pool, faults, cache, fx, authVars, guardVars>>

\* shouldUpdateRates(), lines 91-101
ShouldUpdateRates(table, time) ==
    \E pr \in DOMAIN table : AreRatesStale(table[pr].lastUpdated, time)

\* the loop of fetchLatestRates over the returned rates, lines 144-155
RECURSIVE ApplyRates(_, _, _)
ApplyRates(table, rates, time) ==
    IF rates = <<>> THEN table
    ELSE LET rate == Head(rates)
         IN  ApplyRates(IF IsValidRate(rate.rate)
                        THEN UpdateRate(table, rate.fromCurrency,
                                        rate.toCurrency, rate.rate, time)
                        ELSE table,
                        Tail(rates), time)

\* how many rates of a list pass isValidRate
ValidRates(rates) ==
    Cardinality({i \in 1..Len(rates) : IsValidRate(rates[i].rate)})

\* the current source has not delivered (`continue`, or the catch of lines
\* 160-164): the loop goes to the next source; after the last one
\* fetchLatestRates throws (167-170) and withRetry either gives up (its
\* attempt was the last, retry.util.ts 21-30) or goes to its delay
AfterSource(r) ==
    IF r.source < Len(RateSources)
    THEN [r EXCEPT !.source = @ + 1, !.pc = "isAvailable"]
    ELSE IF r.attempt = MaxAttempts THEN [r EXCEPT !.pc = "failed"]
    ELSE [r EXCEPT !.pc = "sleep"]

\* success = true; break (lines 157-159): fetchLatestRates and withRetry
\* return
Break(r) == [r EXCEPT !.pc = "done"]

\* a source that is asked for its rates whatever isAvailable() said
AlwaysAsked(isAvailable) == TRUE

\* lines 134-138: the source is asked for its rates only if available
IsAsked(isAvailable) == isAvailable

\* updateRatesIfNeeded, lines 177-184: nothing happens unless an entry is
\* stale; otherwise withRetry starts its first attempt and fetchLatestRates
\* its loop
UpdateRatesIfNeeded_Begin ==
    /\ refresh.pc = "idle"
    /\ IF ShouldUpdateRates(fallbackRates, now)
       THEN refresh' = [NoRefresh EXCEPT !.pc = "isAvailable", !.attempt = 1,
                                         !.delay = InitialDelay,
                                         !.source = 1]
       ELSE refresh' = [NoRefresh EXCEPT !.pc = "skipped"]
    /\ UNCHANGED <<restVars, fallbackRates, now>>

\* await source.isAvailable(), lines 134-138
FetchLatestRates_IsAvailable ==
    /\ refresh.pc = "isAvailable"
    /\ \E isAvailable \in BOOLEAN :
          LET r == [refresh EXCEPT
                      !.calls = Append(@, <<refresh.source, "isAvailable",
                                            isAvailable>>)]
          IN  refresh' = IF IsAsked(isAvailable)
                         THEN [r EXCEPT !.pc = "getRates"]
                         ELSE AfterSource(r)
    /\ UNCHANGED <<restVars, fallbackRates, now>>

\* await source.getRates() rejects, lines 141 and 160-164
FetchLatestRates_GetRatesThrows ==
    /\ refresh.pc = "getRates"
    /\ refresh' = AfterSource([refresh EXCEPT
                      !.calls = Append(@, <<refresh.source, "getRates",
                                            FALSE>>)])
    /\ UNCHANGED <<restVars, fallbackRates, now>>

\* await source.getRates() resolves with a list: the valid rates are
\* written, one updateRate each, and the loop over the sources ends (lines
\* 141-159)
FetchLatestRates_GetRates ==
    /\ refresh.pc = "getRates"
    /\ \E rates \in GetRatesLists(refresh.source) :
          /\ fallbackRates' = ApplyRates(fallbackRates, rates, now)
          /\ refresh' = Break([refresh EXCEPT
                            !.calls = Append(@, <<refresh.source, "getRates",
                                                  TRUE>>),
                            !.used = @ \cup {refresh.source},
                            !.rates = rates,
                            !.written = @ + ValidRates(rates)])
    /\ UNCHANGED <<restVars, now>>

\* withRetry, retry.util.ts 25-26 and the loop increment: the delay, then
\* the next attempt, a new fetchLatestRates call
WithRetry_Sleep ==
    /\ refresh.pc = "sleep"
    /\ refresh' = [refresh EXCEPT !.pc = "isAvailable",
                                  !.delay = NextDelay(refresh.delay),
                                  !.attempt = @ + 1,
                                  !.source = 1, !.calls = <<>>]
    /\ UNCHANGED <<restVars, fallbackRates, now>>

\* the scheduler has the result of updateRatesIfNeeded: it returned, or it
\* threw the last error
UpdateRatesIfNeeded_Done ==
    /\ refresh.pc \in {"done", "failed", "skipped"}
    /\ refresh' = NoRefresh
    /\ UNCHANGED <<restVars, fallbackRates, now>>

\* a caller of the public updateRate(fromCurrency, toCurrency, newRate)
UpdateRate_Call ==
    /\ \E c \in UpdateCalls :
          fallbackRates' = UpdateRate(fallbackRates, c[1][1], c[1][2], c[2],
                                      now)
    /\ UNCHANGED <<restVars, refresh, now>>

\* an hour passes
Tick ==
    /\ now < MaxTime
    /\ now' = now + 1
    /\ UNCHANGED <<restVars, fallbackRates, refresh>>

NextFB ==
    \/ UpdateRatesIfNeeded_Begin
    \/ FetchLatestRates_IsAvailable
    \/ FetchLatestRates_GetRatesThrows
    \/ FetchLatestRates_GetRates
    \/ WithRetry_Sleep
    \/ UpdateRatesIfNeeded_Done
    \/ UpdateRate_Call
    \/ Tick

SpecFB == Init /\ [][NextFB]_vars

\* the reversed pair
Reversed(pr) == <<pr[2], pr[1]>>

\* the table holds rate R for the pair and 1 / R for the reversed pair
HoldsBothWays(table, pr, R) ==
    /\ table[pr].rate = R
    /\ table[Reversed(pr)].rate = Inverse(R)

\* C25: right after updateRate(A, B, R) with a valid R the entry of (A, B)
\* has rate R and the entry of (B, A) has rate 1 / R; when a refresh cycle
\* has finished, the same holds for every pair it wrote.
C25_Reciprocity ==
    [][/\ \A pr \in FallbackPairs \cup UpdatePairs, R \in SourceRates :
             (/\ UNCHANGED refresh /\ IsValidRate(R)
              /\ fallbackRates' =
                    UpdateRate(fallbackRates, pr[1], pr[2], R, now)) =>
                 HoldsBothWays(fallbackRates', pr, R)
       /\ (refresh.pc = "getRates" /\ refresh'.pc = "done") =>
             \A i \in 1..Len(refresh'.rates) :
                 LET rate == refresh'.rates[i]
                 IN  IsValidRate(rate.rate) =>
                         HoldsBothWays(fallbackRates',
                                       <<rate.fromCurrency, rate.toCurrency>>,
                                       rate.rate)]_vars

\* C26: in every state the two directions of every pair are stored
\* consistently: the rate of (B, A) is exactly 1 / the rate of (A, B).
C26_TableReciprocal ==
    \A pr \in DOMAIN fallbackRates :
        fallbackRates[Reversed(pr)].rate = Inverse(fallbackRates[pr].rate)

\* C27: a refresh cycle ends as a success only if a source delivered valid
\* rates; a cycle in which no source did fails after the third attempt of
\* withRetry, and none of its steps changes the table.
C27_FailedCycleKeepsTable ==
    /\ [](/\ refresh.pc = "done" => refresh.written > 0
          /\ refresh.pc = "failed" =>
                /\ refresh.attempt = 3
                /\ refresh.used = {} /\ refresh.written = 0)
    /\ [][(refresh' # refresh /\ refresh'.written = 0) =>
             UNCHANGED fallbackRates]_vars

\* the calls a pass of fetchLatestRates has made, as (source, method, result)
CallsInOrder(calls) ==
    \A i \in 1..Len(calls) :
        /\ i = 1 => calls[i][1] = 1 /\ calls[i][2] = "isAvailable"
        /\ calls[i][2] = "getRates" =>
              /\ i > 1
              /\ calls[i - 1] = <<calls[i][1], "isAvailable", TRUE>>
        /\ (i > 1 /\ calls[i][2] = "isAvailable") =>
              /\ calls[i][1] = calls[i - 1][1] + 1
              /\ calls[i - 1][3] = FALSE
        /\ (calls[i][2] = "getRates" /\ calls[i][3]) => i = Len(calls)

\* C28: a pass asks the sources in their order, asks a source for its rates
\* only right after that source said it is available, goes to the next
\* source only after an unavailable or failing one, and asks nothing after a
\* source has delivered its list; a cycle writes the list of at most one
\* source, the one that delivered, and then is over.
C28_FirstSourceOnly ==
    /\ CallsInOrder(refresh.calls)
    /\ Cardinality(refresh.used) <= 1
    /\ refresh.used # {} =>
          /\ refresh.pc = "done"
          /\ refresh.calls[Len(refresh.calls)] =
                <<CHOOSE u \in refresh.used : TRUE, "getRates", TRUE>>
    /\ refresh.pc = "done" => Cardinality(refresh.used) = 1

\* the first source was skipped as unavailable and the rates of the second
\* were written
C28_Witness ==
    /\ refresh.pc = "done" /\ refresh.written > 0
    /\ refresh.calls = <<<<1, "isAvailable", FALSE>>,
                         <<2, "isAvailable", TRUE>>,
                         <<2, "getRates", TRUE>>>>

\* C29: a source whose list has no valid rate (empty, or all rates invalid)
\* does not end the cycle as a success: the next source in order is tried,
\* or, after the last source, the pass fails.
C29_EmptyListIsNoSuccess ==
    [][(/\ refresh.pc = "getRates"
        /\ refresh'.calls =
              Append(refresh.calls, <<refresh.source, "getRates", TRUE>>)
        /\ ValidRates(refresh'.rates) = 0) =>
           /\ refresh'.pc # "done"
           /\ refresh.source < Len(RateSources) =>
                 /\ refresh'.pc = "isAvailable"
                 /\ refresh'.source = refresh.source + 1]_vars

\* C30: every rate stored in the table is finite, strictly positive and
\* below 1000000.
C30_StoredRatesValid ==
    \A pr \in DOMAIN fallbackRates :
        LET rate == fallbackRates[pr].rate
        IN  /\ rate.d > 0
            /\ rate.n > 0
            /\ rate.n \div rate.d < 1000000

\* C31: updateRatesIfNeeded starts a refresh cycle exactly when some entry of
\* the table was last updated strictly more than one hour ago; when no entry
\* is stale the call returns with the table unchanged and no source contacted.
C31_RefreshIffStale ==
    [][(refresh.pc = "idle" /\ refresh'.pc # "idle") =>
          /\ UNCHANGED fallbackRates
          /\ refresh'.calls = <<>>
          /\ IF \E pr \in DOMAIN fallbackRates :
                    now - fallbackRates[pr].lastUpdated > 1
             THEN refresh'.pc = "isAvailable"
             ELSE refresh'.pc = "skipped"]_vars

\* a call found every entry exactly one hour old and started no cycle
C31_Witness ==
    /\ refresh.pc = "skipped"
    /\ \A pr \in DOMAIN fallbackRates :
          now - fallbackRates[pr].lastUpdated = 1

\* C32: the table has an entry for every ordered pair of distinct currencies
\* among NGN, USD, EUR and GBP in every reachable state and no step removes
\* an entry; getRate returns the stored rate of the pair, which is the
\* baseline rate until a refresh or an updateRate call writes the pair (an
\* entry changes only in a step that stamps it with the current time).
C32_TableComplete ==
    /\ \A pr \in FallbackPairs :
          GetRate(fallbackRates, pr[1], pr[2]) = BASE_FALLBACK_RATES[pr]
    /\ [](/\ FallbackPairs \subseteq DOMAIN fallbackRates
          /\ \A pr \in FallbackPairs :
                GetRate(fallbackRates, pr[1], pr[2]) = fallbackRates[pr].rate)
    /\ [][/\ DOMAIN fallbackRates \subseteq DOMAIN fallbackRates'
          /\ \A pr \in FallbackPairs :
                GetRate(fallbackRates', pr[1], pr[2]) #
                   GetRate(fallbackRates, pr[1], pr[2]) =>
                      fallbackRates'[pr].lastUpdated = now]_vars

\* one pair was rewritten and getRate returns the new rate for it, while a
\* pair never written still returns its baseline rate
C32_Witness ==
    /\ GetRate(fallbackRates, "USD", "EUR") = Rat(4, 1)
    /\ GetRate(fallbackRates, "EUR", "USD") = Rat(1, 4)
    /\ GetRate(fallbackRates, "NGN", "GBP") = Rat(1, 625)
    /\ now = 1 /\ fallbackRates[<<"NGN", "GBP">>].lastUpdated = 0

authRest == <<transactions, walletLock, rowLock, pc, req, local, tx, pool,
              faults, cache, fx, fbVars, guardVars>>

\* userRepository.findOne({ where: { verificationToken: token } })
UserByToken(token) == {u \in UserIds : users[u].verificationToken = token}

\* the result of a verifyEmail call at position pc
Verify(token, userId, position, started, err) ==
    [pc |-> position, token |-> token, userId |-> userId,
     started |-> started, err |-> err]

\* lines 685-703: the lookup by token, the two early exits, and
\* createQueryRunner, connect, startTransaction
VerifyEmail_Begin(p) ==
    /\ auth[p].pc = "idle"
    /\ \E token \in Tokens :
          LET found == UserByToken(token)
          IN  IF found = {}
              THEN auth' = [auth EXCEPT ![p] =
                      Verify(token, "none", "rejected", FALSE,
                             "Invalid or expired verification token")]
              ELSE LET u == CHOOSE v \in found : TRUE
                   IN  IF users[u].isEmailVerified
                       THEN auth' = [auth EXCEPT ![p] =
                               Verify(token, u, "returned", FALSE, "none")]
                       ELSE auth' = [auth EXCEPT ![p] =
                               Verify(token, u, "save", TRUE, "none")]
    /\ UNCHANGED <<authRest, balances, users>>

\* the UPDATE of the users row holds the row until the transaction ends
UserRowHeld(p, userId) ==
    \E q \in Procs \ {p} :
        auth[q].pc \in {"getWalletBalances", "catch"} /\ auth[q].userId = userId

\* lines 706-708: isEmailVerified = true and verificationToken = null are
\* saved inside the transaction; the UPDATE waits for the row
VerifyEmail_Save(p) ==
    /\ auth[p].pc = "save"
    /\ ~UserRowHeld(p, auth[p].userId)
    /\ auth' = [auth EXCEPT ![p].pc = "getWalletBalances"]
    /\ UNCHANGED <<authRest, balances, users>>

\* lines 711-714: walletService.getWalletBalances(user.id) (wallet.service.ts
\* lines 57-87: eligibility from the committed users row, the wallet, its NGN
\* balance), then commitTransaction; an error of the call goes to the catch
VerifyEmail_GetWalletBalances(p) ==
    /\ auth[p].pc = "getWalletBalances"
    /\ LET u == auth[p].userId
           wallet == WalletFound(u)
       IN  IF ~UserIsVerified(u)
           THEN /\ auth' = [auth EXCEPT ![p].pc = "catch",
                                        ![p].err = "FORBIDDEN"]
                /\ UNCHANGED <<balances, users>>
           ELSE IF wallet = NoWallet
           THEN /\ auth' = [auth EXCEPT ![p].pc = "catch",
                                        ![p].err = "NOT_FOUND"]
                /\ UNCHANGED <<balances, users>>
           ELSE /\ balances' =
                      IF \E i \in 1..Len(balances) :
                             balances[i].walletId = wallet
                      THEN balances
                      ELSE Append(balances,
                                  NewBalanceRow(wallet, DefaultCurrency))
                /\ users' = [users EXCEPT ![u].isEmailVerified = TRUE,
                                          ![u].verificationToken = NoToken]
                /\ auth' = [auth EXCEPT ![p].pc = "verified"]
    /\ UNCHANGED authRest

\* lines 716-720: rollbackTransaction, and the error thrown in place of the
\* caught one
VerifyEmail_Catch(p) ==
    /\ auth[p].pc = "catch"
    /\ auth' = [auth EXCEPT ![p].pc = "failed",
                            ![p].err = "Email verification failed. Please try again."]
    /\ UNCHANGED <<authRest, balances, users>>

\* the call has returned or thrown; finally: release
VerifyEmail_Respond(p) ==
    /\ auth[p].pc \in {"rejected", "returned", "verified", "failed"}
    /\ auth' = [auth EXCEPT ![p] = NoVerify]
    /\ UNCHANGED <<authRest, balances, users>>

\* register with the e-mail of a user who is not verified, lines 634-639 and
\* 672-682: resendVerificationEmail saves a fresh token (the uuid t4 here)
Register_Resend ==
    /\ \E u \in UserIds :
          /\ ~users[u].isEmailVerified
          /\ users[u].verificationToken = "t3"
          /\ ~UserRowHeld(0, u)
          /\ users' = [users EXCEPT ![u].verificationToken = "t4"]
    /\ UNCHANGED <<authRest, balances, auth>>

NextAuth ==
    \/ \E p \in Procs :
          \/ VerifyEmail_Begin(p)
          \/ VerifyEmail_Save(p)
          \/ VerifyEmail_GetWalletBalances(p)
          \/ VerifyEmail_Catch(p)
          \/ VerifyEmail_Respond(p)
    \/ Register_Resend
    \/ Tick

\* the tables of Init, the users table with or without an expiry date on the
\* row of u3
InitAuth ==
    /\ balances = <<>>
    /\ transactions = <<>>
    /\ walletLock = [u \in WalletOwners |-> 0]
    /\ rowLock = [p \in Procs |-> {}]
    /\ pc = [p \in Procs |-> "idle"]
    /\ req = [p \in Procs |-> NoRequest]
    /\ local = [p \in Procs |-> NoLocal]
    /\ tx = [p \in Procs |-> NoTx]
    /\ pool = Pool
    /\ faults = TRUE
    /\ cache = [b \in Currency |-> NoTable]
    /\ fx = [p \in Procs |-> NoCall]
    /\ fallbackRates = InitializeFallbackRates(0)
    /\ refresh = NoRefresh
    /\ now = 0
    /\ users \in {InitialUsers, ExpiredUsers}
    /\ auth = [p \in Procs |-> NoVerify]
    /\ limits = [k \in RateLimitKeys |-> NoEntry]
    /\ guard = [p \in Procs |-> NoGuard]
    /\ clock = 0
    /\ served = <<>>
    /\ ttlUnit = "seconds"

SpecAuth == InitAuth /\ [][NextAuth]_vars

\* the token of a verifyEmail call belongs to a user who is not verified
TokenOfUnverified(token) ==
    \E u \in UserByToken(token) : ~users[u].isEmailVerified

\* the token's expiry has passed
TokenExpired(token) ==
    \E u \in UserByToken(token) :
        \E expires \in users[u].verificationTokenExpires : now > expires

\* C34: verifyEmail with a valid token of a user who is not yet verified
\* succeeds: the step that ends its try block commits (no rollback), the
\* user's row is verified afterwards, the user has a wallet and passes the
\* eligibility check of the ledger operations.
C34_VerifyEmailCommits ==
    [][\A p \in Procs :
          (/\ auth[p].pc = "getWalletBalances" /\ auth'[p].pc # auth[p].pc
           /\ TokenOfUnverified(auth[p].token)
           /\ ~TokenExpired(auth[p].token)) =>
              /\ auth'[p].pc = "verified"
              /\ users'[auth[p].userId].isEmailVerified
              /\ WalletFound(auth[p].userId) # NoWallet]_vars

\* C35: verifyEmail with a token whose expiry has passed is refused with the
\* token-expired error in the step that accepts the call, with no transaction
\* started, and the user stays unverified.
C35_ExpiredTokenRefused ==
    [][\A p \in Procs :
          (/\ auth[p].pc = "idle" /\ auth'[p].pc # "idle"
           /\ TokenOfUnverified(auth'[p].token)
           /\ TokenExpired(auth'[p].token)) =>
              /\ auth'[p].pc = "rejected"
              /\ auth'[p].err = "Verification token has expired"
              /\ ~auth'[p].started
              /\ UNCHANGED users]_vars

\* ------------------------------------------------ RateLimitGuard.canActivate
\* rate-limit.guard.ts lines 26-68.  The handler reads the clock, awaits
\* cacheManager.get and later cacheManager.set; other requests run and time
\* passes while it waits.
guardRest == <<balances, transactions, walletLock, rowLock, pc, req, local,
               tx, pool, faults, cache, fx, fbVars, authVars>>

\* requests admitted so far plus requests inside canActivate
ServedCounted ==
    Len(served) + Cardinality({q \in Procs : guard[q].pc # "idle"})

\* the second at which an entry set now with the ttl argument `ttl` ends
Expires(ttl) ==
    IF ttl = 0 THEN Forever
    ELSE IF ttlUnit = "seconds" THEN clock + ttl
    ELSE clock + (ttl \div 1000)

\* cacheManager.get(key): the value of the entry, undefined once its ttl is
\* over
CacheRecord(key) ==
    IF limits[key].expires < clock THEN NoRecord ELSE limits[key].value

\* lines 27-33, up to the await: options, key, now = Date.now(), and the
\* call of cacheManager.get(key)
CanActivate_Now(p) ==
    /\ guard[p].pc = "idle"
    /\ ServedCounted < MaxServed
    /\ \E key \in RateLimitKeys :
          guard' = [guard EXCEPT ![p] =
                       [pc |-> "get", key |-> key, now |-> clock,
                        record |-> NoRecord, result |-> "none"]]
    /\ UNCHANGED <<guardRest, limits, clock, served, ttlUnit>>

\* line 33: the cache answers the get with what it holds at that time, which
\* can be later than `now`
CanActivate_Get(p) ==
    /\ guard[p].pc = "get"
    /\ guard' = [guard EXCEPT ![p].pc = "got",
                              ![p].record = CacheRecord(guard[p].key)]
    /\ UNCHANGED <<guardRest, limits, clock, served, ttlUnit>>

\* the record lines 36-39 and 44-47 store: a new window
NewWindow(time) ==
    [points |-> RateLimitPoints - 1, resetTime |-> time + RateLimitDuration]

\* the record lines 58-65 store: one point less in the window that was read
SameWindow(record) ==
    [points |-> record.points - 1, resetTime |-> record.resetTime]

\* lines 35-67: the decision on the record that was read, and the set with
\* its ttl argument: options.duration * 1000 for a new window (39, 47),
\* Math.ceil((record.resetTime - now) / 1000), on times in milliseconds,
\* for the window that was read (64)
CanActivate_Decide(p) ==
    /\ guard[p].pc = "got"
    /\ LET g == guard[p]
           fresh == g.record = NoRecord \/ g.now > g.record.resetTime
           stored == IF fresh THEN NewWindow(g.now) ELSE SameWindow(g.record)
           ttl == IF fresh THEN RateLimitDuration * 1000
                  ELSE g.record.resetTime - g.now
       IN  IF /\ g.record # NoRecord
              /\ g.now <= g.record.resetTime
              /\ g.record.points <= 0
           THEN /\ guard' = [guard EXCEPT ![p].pc = "thrown",
                                          ![p].result = "TOO_MANY_REQUESTS"]
                /\ UNCHANGED <<limits, served>>
           ELSE /\ limits' = [limits EXCEPT ![g.key] =
                                 [value |-> stored, expires |-> Expires(ttl)]]
                /\ served' = Append(served, [key |-> g.key, now |-> g.now,
                                             resetTime |-> stored.resetTime])
                /\ guard' = [guard EXCEPT ![p].pc = "returned",
                                          ![p].result = "true"]
    /\ UNCHANGED <<guardRest, clock, ttlUnit>>

\* the cache manager drops an entry in the second in which its ttl ends
CacheDrop(key) ==
    /\ limits[key] # NoEntry
    /\ limits[key].expires <= clock
    /\ limits' = [limits EXCEPT ![key] = NoEntry]
    /\ UNCHANGED <<guardRest, guard, clock, served, ttlUnit>>

\* the request goes on to its route handler, or the 429 response is sent
CanActivate_Done(p) ==
    /\ guard[p].pc \in {"returned", "thrown"}
    /\ guard' = [guard EXCEPT ![p] = NoGuard]
    /\ UNCHANGED <<guardRest, limits, clock, served, ttlUnit>>

\* time passes
ClockTick ==
    /\ clock < MaxClock
    /\ clock' = clock + 1
    /\ UNCHANGED <<guardRest, limits, guard, served, ttlUnit>>

NextRL ==
    \/ \E p \in Procs :
          \/ CanActivate_Now(p)
          \/ CanActivate_Get(p)
          \/ CanActivate_Decide(p)
          \/ CanActivate_Done(p)
    \/ \E key \in RateLimitKeys : CacheDrop(key)
    \/ ClockTick

\* the tables of Init, with either reading of the ttl argument
InitRL ==
    /\ balances = <<>>
    /\ transactions = <<>>
    /\ walletLock = [u \in WalletOwners |-> 0]
    /\ rowLock = [p \in Procs |-> {}]
    /\ pc = [p \in Procs |-> "idle"]
    /\ req = [p \in Procs |-> NoRequest]
    /\ local = [p \in Procs |-> NoLocal]
    /\ tx = [p \in Procs |-> NoTx]
    /\ pool = Pool
    /\ faults = TRUE
    /\ cache = [b \in Currency |-> NoTable]
    /\ fx = [p \in Procs |-> NoCall]
    /\ fallbackRates = InitializeFallbackRates(0)
    /\ refresh = NoRefresh
    /\ now = 0
    /\ users = InitialUsers
    /\ auth = [p \in Procs |-> NoVerify]
    /\ limits = [k \in RateLimitKeys |-> NoEntry]
    /\ guard = [p \in Procs |-> NoGuard]
    /\ clock = 0
    /\ served = <<>>
    /\ ttlUnit \in TtlUnits

SpecRL == InitRL /\ [][NextRL]_vars

\* the requests of a key admitted in the window that ends at resetTime
AdmittedIn(key, resetTime) ==
    {i \in 1..Len(served) :
        served[i].key = key /\ served[i].resetTime = resetTime}

\* C36: for one key, at most `points` requests are admitted within one
\* window, whatever the interleaving of the requests handled concurrently;
\* a request whose time is after the window's resetTime starts a new window
\* with the full budget.
C36_AtMostPointsPerWindow ==
    /\ [](\A key \in RateLimitKeys, resetTime \in 0..(MaxClock + RateLimitDuration) :
            Cardinality(AdmittedIn(key, resetTime)) <= RateLimitPoints)
    /\ [][\A p \in Procs :
             (/\ guard[p].pc = "got" /\ guard'[p].pc # "got"
              /\ guard[p].record # NoRecord
              /\ guard[p].now > guard[p].record.resetTime) =>
                 /\ guard'[p].pc = "returned"
                 /\ limits'[guard[p].key].value =
                       NewWindow(guard[p].now)]_vars

\* C37: every rate applied to a committed trade is strictly positive:
\* executeTrade never commits a trade whose rate is zero, negative or missing.
C37_TradeRatePositive ==
    \A i \in 1..Len(transactions) :
        transactions[i].type = "TRADE" => transactions[i].rate > 0

\* what ledger entry e adds to the total of currency c: a funding its amount,
\* a trade its converted amount in the target currency and minus its amount
\* in the source currency, a transfer nothing
NetOfEntry(e, c) ==
    CASE e.type = "FUNDING" -> IF e.toCurrency = c THEN e.amount ELSE 0
      [] e.type = "TRADE" ->
            (IF e.toCurrency = c THEN e.convertedAmount ELSE 0)
            - (IF e.fromCurrency = c THEN e.amount ELSE 0)
      [] OTHER -> 0

RECURSIVE NetOfLedger(_, _, _)
NetOfLedger(ledger, n, c) ==
    IF n = 0 THEN 0
    ELSE NetOfLedger(ledger, n - 1, c) + NetOfEntry(ledger[n], c)

\* C38: for every currency, the sum of the committed balances over all owners
\* equals the funded amounts in that currency, plus the converted amounts of
\* the trades into it, minus the amounts of the trades out of it; transfers
\* contribute nothing.
C38_LedgerExplainsBalances ==
    \A c \in Currency \cup {DefaultCurrency} :
        TotalOfCurrency(balances, c) =
            NetOfLedger(transactions, Len(transactions), c)

\* a funding of 1 and a trade of it at rate 2 are committed: the source
\* currency is back at 0 and the target currency holds 2
C38_Witness ==
    /\ Len(transactions) = 2
    /\ transactions[1].type = "FUNDING"
    /\ transactions[2].type = "TRADE" /\ transactions[2].rate = 2
    /\ TotalOfCurrency(balances, transactions[2].fromCurrency) = 0
    /\ TotalOfCurrency(balances, transactions[2].toCurrency) = 2

\* ------------------------------------- transfers to an unverified recipient
GetTransactions_Call(p) ==
    /\ Accepts(p)
    /\ \E r \in pool \cap TransactionRequests :
          IF ~UserIsVerified(r.userId) THEN Reject(p, r, "FORBIDDEN")
          ELSE UNCHANGED vars

\* the owner of a wallet whose users row has isEmailVerified = false
UnverifiedOwner == "u2"

\* what the callers of these behaviours ask for: a verified owner funds its
\* wallet and transfers to the unverified owner; the unverified owner calls
\* every operation of the service
TransferPool ==
    {r \in FundRequests \cup TransferRequests :
        /\ r.userId \in Verified \ {UnverifiedOwner} /\ r.amount > 0
        /\ r.type = "TRANSFER" => r.toUserId = UnverifiedOwner}
    \cup {r \in Requests \cup BalanceRequests \cup TransactionRequests :
            /\ r.userId = UnverifiedOwner
            /\ r.type \in {"FUNDING", "TRADE"} =>
                  r.amount > 0 /\ r.fromCurrency = "USD"
            /\ r.type = "TRADE" => r.toCurrency = "EUR"
            /\ r.type = "TRANSFER" => r.amount > 0 /\ r.toUserId \in Verified \ {UnverifiedOwner}}

InitXfer ==
    /\ balances = <<>>
    /\ transactions = <<>>
    /\ walletLock = [u \in WalletOwners |-> 0]
    /\ rowLock = [p \in Procs |-> {}]
    /\ pc = [p \in Procs |-> "idle"]
    /\ req = [p \in Procs |-> NoRequest]
    /\ local = [p \in Procs |-> NoLocal]
    /\ tx = [p \in Procs |-> NoTx]
    /\ pool = TransferPool
    /\ faults = FALSE
    /\ cache = [b \in Currency |-> NoTable]
    /\ fx = [p \in Procs |-> NoCall]
    /\ fallbackRates = InitializeFallbackRates(0)
    /\ refresh = NoRefresh
    /\ now = 0
    /\ users = [InitialUsers EXCEPT ![UnverifiedOwner].isEmailVerified = FALSE]
    /\ auth = [p \in Procs |-> NoVerify]
    /\ limits = [k \in RateLimitKeys |-> NoEntry]
    /\ guard = [p \in Procs |-> NoGuard]
    /\ clock = 0
    /\ served = <<>>
    /\ ttlUnit = "seconds"

NextXfer ==
    \E p \in Procs :
        \/ FundWallet_Begin(p)
        \/ FundWallet_FindWallet(p)
        \/ FundWallet_Execute(p)
        \/ TransferFunds_Begin(p)
        \/ TransferFunds_FindFromWallet(p)
        \/ TransferFunds_FindToWallet(p)
        \/ TransferFunds_FromBalance(p)
        \/ TransferFunds_Execute(p)
        \/ ExecuteTrade_Begin(p)
        \/ GetWalletBalances_Begin(p)
        \/ GetTransactions_Call(p)
        \/ Commit(p)
        \/ Rollback(p)
        \/ Respond(p)

SpecXfer == InitXfer /\ [][NextXfer]_vars

\* the users row of userId has isEmailVerified = false
NotEmailVerified(userId) == ~users[userId].isEmailVerified

\* C39: transferFunds checks the eligibility of the sender only.  A transfer
\* of a verified sender to a recipient who owns a wallet but is not verified
\* is accepted, and its commit credits the recipient; a call of any
\* operation in the name of a user who is not verified (fundWallet,
\* transferFunds as sender, executeTrade, getWalletBalances,
\* getTransactions) is refused as not eligible.
C39_SenderOnlyEligibility ==
    [][\A p \in Procs :
          /\ (/\ AcceptsCall(p) /\ req'[p].type = "TRANSFER"
              /\ ~NotEmailVerified(req'[p].userId)
              /\ NotEmailVerified(req'[p].toUserId)
              /\ ValidationError(req'[p]) = "NONE") =>
                 pc'[p] = "findWallet"
          /\ (/\ Moves(p, "commit", "idle") /\ req[p].type = "TRANSFER"
              /\ NotEmailVerified(req[p].toUserId)) =>
                 BalanceOf(balances', req[p].toUserId,
                           req[p].fromCurrency).balance =
                    BalanceOf(balances, req[p].toUserId,
                              req[p].fromCurrency).balance + req[p].amount
          /\ (AcceptsCall(p) /\ NotEmailVerified(req'[p].userId)) =>
                 /\ req'[p].type \in {"FUNDING", "TRANSFER", "TRADE",
                                       "BALANCES", "TRANSACTIONS"}
                 /\ pc'[p] = "rejected" /\ local'[p].err = "FORBIDDEN"
                 /\ NothingTouched]_vars

\* the unverified owner holds what a verified sender transferred to it
C39_Witness ==
    /\ NotEmailVerified(UnverifiedOwner)
    /\ Len(transactions) = 2 /\ transactions[2].type = "TRANSFER"
    /\ transactions[2].userId # UnverifiedOwner
    /\ BalanceOf(balances, UnverifiedOwner,
                 transactions[2].fromCurrency).balance = 1

\* C40: every ledger entry that is persisted has status COMPLETED; the ledger
\* starts empty, grows by exactly one entry in the step that commits a
\* funding, a transfer or a trade, and no other step (a rejection, a failure
\* of the try block, a rollback) changes it: the number of entries is the
\* number of committed operations and a failed attempt leaves no entry.
C40_LedgerCountsCommits ==
    /\ transactions = <<>>
    /\ [](\A i \in 1..Len(transactions) :
            transactions[i].status = "COMPLETED")
    /\ [][IF \E p \in Procs : Moves(p, "commit", "idle")
          THEN Len(transactions') = Len(transactions) + 1
          ELSE UNCHANGED transactions]_vars

\* one operation is committed and another has failed after its ledger row
\* was saved inside its transaction: the ledger holds the committed one only
C40_Witness ==
    /\ Len(transactions) = 1
    /\ \E p \in Procs :
          /\ pc[p] = "failed"
          /\ Len(tx[p].ledger) = 1 /\ tx[p].ledger[1].status = "COMPLETED"

====
